---- MODULE Spec2Model ----
(***************************************************************************)
(* Resumable QA generation of dresokb: the checkpoint store                *)
(* (QAProgressManager), the page x difficulty engine                       *)
(* (QAGenerator.generate_from_markdown) and the per-document orchestrator  *)
(* (cli.process_single_file), with process interruption and re-runs.       *)
(*                                                                         *)
(* Strings are sequences of characters, each a one-character string; a     *)
(* code point that TLA+ cannot write is the atom "U+XXXX" of its number.   *)
(* An absent value (Python None) is the empty sequence << >> and a present *)
(* one a one-element sequence << v >>.                                     *)
(***************************************************************************)
EXTENDS Integers, Sequences, FiniteSets, TLC

\* ------------------------------------------------------------------ bounds
\* segments of the markdown file after the first split
MaxPages == 2
\* largest --max-difficulty requested in a run
MaxDiff == 2
\* number of process_single_file runs of the document (first run + re-runs)
MaxRuns == 2

\* ----------------------------------------------------------------- strings
None == << >>
Some(v) == << v >>

\* the characters of a literal
Chars(str) == [i \in 1..Len(str) |-> SubSeq(str, i, i)]

RECURSIVE RFind(_, _, _)
\* str.rfind as a 1-based index, 0 when absent (Python: -1)
RFind(s, c, i) == IF i = 0 THEN 0 ELSE IF s[i] = c THEN i ELSE RFind(s, c, i - 1)

\* PurePath.stem: the name without its last suffix; a leading or trailing dot
\* is no suffix separator (0 < i < len(name) - 1 in 0-based indices)
Stem(name) ==
    LET i == RFind(name, ".", Len(name))
    IN  IF 1 < i /\ i < Len(name) THEN SubSeq(name, 1, i - 1) ELSE name

\* str.lower on one atom
LowerChar(c) == IF c = "Q" THEN "q" ELSE IF c = "A" THEN "a" ELSE c
\* a lower() that keeps the case (a faulty variant)
Lower_KeepsCase(s) == s

\* str.lower
Lower(s) == [i \in 1..Len(s) |-> LowerChar(s[i])]

\* the characters str.strip() and int() remove at the ends of a text, those
\* str.isspace() holds for: the ASCII white space with U+000B, the
\* separators U+001C to U+001F, and the spaces outside ASCII
Whitespace ==
    { " ", "\t", "\n", "\r", "\f", "U+000B", "U+001C", "U+001D", "U+001E", "U+001F",
      "U+0085", "U+00A0", "U+1680", "U+2000", "U+2001", "U+2002", "U+2003", "U+2004",
      "U+2005", "U+2006", "U+2007", "U+2008", "U+2009", "U+200A", "U+2028", "U+2029",
      "U+202F", "U+205F", "U+3000" }

\* the characters skipped at the ends of the text of an int: int() takes
\* the str.isspace() characters outside ASCII for spaces and skips the ASCII
\* ones that C's isspace holds for, and pydantic trims the text with
\* str::trim of its Rust core, which removes the characters of the Unicode
\* property White_Space; the separators U+001C to U+001F are in neither
IntWhitespace == Whitespace \ { "U+001C", "U+001D", "U+001E", "U+001F" }

RECURSIVE LStrip(_, _)
LStrip(s, ws) == IF s # << >> /\ Head(s) \in ws THEN LStrip(Tail(s), ws) ELSE s
RECURSIVE RStrip(_, _)
RStrip(s, ws) ==
    IF s # << >> /\ s[Len(s)] \in ws THEN RStrip(SubSeq(s, 1, Len(s) - 1), ws) ELSE s

\* the text without the characters of ws at its ends
Trim(s, ws) == RStrip(LStrip(s, ws), ws)

\* a strip() that removes nothing (a faulty variant)
Strip_Nothing(s) == s

\* str.strip
Strip(s) == Trim(s, Whitespace)

RECURSIVE Find(_, _, _)
\* str.find from the 1-based index i on, 0 when absent
Find(s, c, i) == IF i > Len(s) THEN 0 ELSE IF s[i] = c THEN i ELSE Find(s, c, i + 1)

\* str.split("\n", 1)
SplitOnce(s) ==
    LET i == Find(s, "\n", 1)
    IN  IF i = 0 THEN << s >> ELSE << SubSeq(s, 1, i - 1), SubSeq(s, i + 1, Len(s)) >>

\* a lone surrogate code point, as json.loads gives it for the escape \ud83d
\* that no low surrogate follows; a Python str can hold it
LoneSurrogate == "U+D83D"

\* str.encode("utf-8") succeeds, what a text file opened with
\* encoding="utf-8" requires of the text written to it
Encodable(s) == \A i \in 1..Len(s) : s[i] # LoneSurrogate

\* ------------------------------------------------------------------- paths
RECURSIVE SplitSlash(_, _)
\* the components of a path string: split on "/", empty and "." parts dropped
SplitSlash(s, cur) ==
    IF s = << >> THEN (IF cur = << >> \/ cur = << "." >> THEN << >> ELSE << cur >>)
    ELSE IF Head(s) = "/"
         THEN (IF cur = << >> \/ cur = << "." >> THEN << >> ELSE << cur >>)
              \o SplitSlash(Tail(s), << >>)
         ELSE SplitSlash(Tail(s), Append(cur, Head(s)))

\* the root of a path string: "/" for any number of leading slashes but two,
\* "//" for exactly two, nothing for a relative path
RootOf(s) ==
    IF s = << >> \/ Head(s) # "/" THEN << >>
    ELSE IF Len(s) >= 2 /\ s[2] = "/" /\ (Len(s) = 2 \/ s[3] # "/") THEN << "/", "/" >>
    ELSE << "/" >>

\* Path(s): a path is the sequence of its parts, the root first when the
\* string is absolute
PathOf(s) ==
    (IF RootOf(s) = << >> THEN << >> ELSE << RootOf(s) >>) \o SplitSlash(s, << >>)

\* the path's first part is a root
HasRoot(p) == p # << >> /\ Head(p[1]) = "/"

RECURSIVE JoinSlash(_)
JoinSlash(p) ==
    IF p = << >> THEN << >>
    ELSE IF Len(p) = 1 THEN p[1] ELSE p[1] \o << "/" >> \o JoinSlash(Tail(p))

\* str(path): the root is followed by the other parts joined with "/"; the
\* empty path is "."
StrOfPath(p) ==
    IF p = << >> THEN << "." >>
    ELSE IF HasRoot(p) THEN p[1] \o JoinSlash(Tail(p))
    ELSE JoinSlash(p)

\* path / name
Div(p, name) == Append(p, name)

\* path.stem: the stem of the last part; a root is no name
PathStem(p) == IF p = << >> \/ (Len(p) = 1 /\ HasRoot(p)) THEN << >> ELSE Stem(p[Len(p)])

\* ------------------------------------------------------------------ inputs
\* names of the input documents
FileNames == { << "a", ".", "p", "d", "f" >>, << "a", ".", "b", ".", "p", "d", "f" >> }

\* spellings of --data-dir; both name the same directory (the second one as
\* seen from the parent working directory), and an absolute one
DataDirs == { << "d" >>, << "w", "/", "d" >>, << "/", "d" >> }

\* a segment of the markdown text after content.split("## Page "): the text
\* of its first line and whether anything follows that line after strip()
\* what save_as_markdown writes after "## Page " for a page: the number, an
\* empty line, the content and a line end; the parts are joined with a line
\* end, so that one more follows every page but the last
ConverterSegment(page_num, content, last) ==
    page_num \o << "\n", "\n" >> \o content \o << "\n" >>
    \o (IF last THEN << >> ELSE << "\n" >>)

\* the segments of the markdown files: a page with text, a page whose
\* content is empty, one whose content is white space, and a segment that starts
\* with no number (a "## Page " that is not the converter's), each as the
\* last page and as one that another follows
SegmentTexts ==
    UNION { { ConverterSegment(<< "7" >>, << "t" >>, last),
              ConverterSegment(<< "7" >>, << >>, last),
              ConverterSegment(<< "7" >>, << " ", "U+000B", "\n" >>, last),
              ConverterSegment(<< "x" >>, << "t" >>, last) } : last \in BOOLEAN }

\* lines = page_content.strip().split("\n", 1): the header line, and
\* whether a second element follows ("if len(lines) < 2: continue")
SegmentOf(text) ==
    LET lines == SplitOnce(Strip(text))
    IN  [hdr |-> lines[1], body |-> Len(lines) >= 2]

Segments == { SegmentOf(text) : text \in SegmentTexts }

Documents == UNION { [1..n -> Segments] : n \in 1..MaxPages }

\* the segment a text gives that a failed or interrupted write cut short
CutSegments ==
    UNION { { SegmentOf(SubSeq(text, 1, k)) : k \in 0..Len(text) } : text \in SegmentTexts }

\* the segments of a markdown file whose text was not written to its end:
\* none, or whole pages and what the cut left of the one after them
PartialDocuments ==
    { << >> }
    \cup { Append(d, c) : d \in { << >> } \cup { w \in Documents : Len(w) < MaxPages },
                          c \in CutSegments }

DigitVal(c) ==
    CASE c = "0" -> 0 [] c = "1" -> 1 [] c = "2" -> 2 [] c = "3" -> 3 [] c = "4" -> 4
      [] c = "5" -> 5 [] c = "6" -> 6 [] c = "7" -> 7 [] c = "8" -> 8 [] c = "9" -> 9

IsDigit(c) == c \in { "0", "1", "2", "3", "4", "5", "6", "7", "8", "9" }

DigitChar(n) == << "0", "1", "2", "3", "4", "5", "6", "7", "8", "9" >>[n + 1]

RECURSIVE Digits(_)
\* the decimal digits of a number that is not negative
Digits(n) == IF n < 10 THEN << DigitChar(n) >> ELSE Digits(n \div 10) \o << DigitChar(n % 10) >>

\* str(n)
IntText(n) == IF n < 0 THEN << "-" >> \o Digits(0 - n) ELSE Digits(n)

\* the text is a run of decimal digits
AllDigits(s) == s # << >> /\ \A i \in 1..Len(s) : IsDigit(s[i])

RECURSIVE DigitsVal(_)
\* the number a run of decimal digits denotes
DigitsVal(s) ==
    IF s = << >> THEN 0 ELSE 10 * DigitsVal(SubSeq(s, 1, Len(s) - 1)) + DigitVal(s[Len(s)])

\* int(text) reads the text without the white space at its ends and
\* without one leading sign
Unsigned(s) ==
    LET t == Trim(s, IntWhitespace)
    IN  IF t # << >> /\ Head(t) \in { "+", "-" } THEN Tail(t) ELSE t

\* digits, with single underscores between them
Grouped(b) ==
    /\ b # << >>
    /\ \A i \in 1..Len(b) : IsDigit(b[i]) \/ b[i] = "_"
    /\ IsDigit(b[1]) /\ IsDigit(b[Len(b)])
    /\ \A i \in 1..(Len(b) - 1) : ~(b[i] = "_" /\ b[i + 1] = "_")

\* int(text) succeeds
IntParses(s) == Grouped(Unsigned(s))

RECURSIVE WithoutUnderscores(_)
WithoutUnderscores(b) ==
    IF b = << >> THEN << >>
    ELSE (IF Head(b) = "_" THEN << >> ELSE << Head(b) >>) \o WithoutUnderscores(Tail(b))

\* int(text)
IntOf(s) ==
    LET t == Trim(s, IntWhitespace)
        n == DigitsVal(WithoutUnderscores(Unsigned(s)))
    IN  IF t # << >> /\ Head(t) = "-" THEN 0 - n ELSE n

\* s[i:i+1]: the character at a place, the empty text outside the text
CharAt(text, i) == IF 1 <= i /\ i <= Len(text) THEN text[i] ELSE ""

\* the text holds the characters of lit from the place i on
StartsAt(text, i, lit) ==
    i + Len(lit) - 1 <= Len(text) /\ SubSeq(text, i, i + Len(lit) - 1) = lit

RECURSIVE DigitRun(_, _)
\* the place after the run of digits that starts at i
DigitRun(text, i) ==
    IF i <= Len(text) /\ IsDigit(text[i]) THEN DigitRun(text, i + 1) ELSE i

\* json's NUMBER_RE, (-?(?:0|[1-9]\d*))(\.\d+)?([eE][-+]?\d+)?, matched at
\* the place i: the places after the integer, after the fraction and after
\* the exponent, int_end = 0 when there is no match; a fraction or an
\* exponent without a digit is no part of the number.
\* the place after the sign
SignEnd(text, i) == IF CharAt(text, i) = "-" THEN i + 1 ELSE i
\* the place after (?:0|[1-9]\d*) from d on, 0 when it does not match
IntEnd(text, d) ==
    IF CharAt(text, d) = "0" THEN d + 1
    ELSE IF IsDigit(CharAt(text, d)) THEN DigitRun(text, d)
    ELSE 0
\* the place after (\.\d+)? from ie on
FracEnd(text, ie) ==
    IF ie > 0 /\ CharAt(text, ie) = "." /\ IsDigit(CharAt(text, ie + 1))
    THEN DigitRun(text, ie + 1)
    ELSE ie
\* where the digits of an exponent that starts at fe are
ExpDigits(text, fe) == IF CharAt(text, fe + 1) \in { "+", "-" } THEN fe + 2 ELSE fe + 1
\* the place after ([eE][-+]?\d+)? from fe on
ExpEnd(text, ie, fe) ==
    IF ie > 0 /\ CharAt(text, fe) \in { "e", "E" } /\ IsDigit(CharAt(text, ExpDigits(text, fe)))
    THEN DigitRun(text, ExpDigits(text, fe))
    ELSE fe
MatchFrom(text, ie, fe) == [int_end |-> ie, frac_end |-> fe, end |-> ExpEnd(text, ie, fe)]
MatchInt(text, ie) == MatchFrom(text, ie, FracEnd(text, ie))
match_number(text, i) == MatchInt(text, IntEnd(text, SignEnd(text, i)))

\* the digits of a number from its first one that is not zero
RECURSIVE Significant(_)
Significant(ds) == IF ds # << >> /\ Head(ds) = "0" THEN Significant(Tail(ds)) ELSE ds

\* the number of an exponent's digits; beyond 100000, where every float is
\* infinite or zero, that number is taken for it
ExponentVal(ds) == IF Len(Significant(ds)) > 5 THEN 100000 ELSE DigitsVal(ds)

\* the exponent of the number matched as m, 0 when it has none
ExponentOf(s, m) ==
    IF m.end = m.frac_end THEN 0
    ELSE IF CharAt(s, m.frac_end + 1) = "-"
         THEN 0 - ExponentVal(SubSeq(s, m.frac_end + 2, m.end - 1))
    ELSE ExponentVal(SubSeq(s, ExpDigits(s, m.frac_end), m.end - 1))

\* the parts of the number matched as m
PartsOf(s, m) ==
    [negative |-> s[1] = "-",
     digits |-> SubSeq(s, SignEnd(s, 1), m.int_end - 1)
                \o SubSeq(s, m.int_end + 1, m.frac_end - 1),
     shift |-> (IF m.frac_end > m.int_end THEN m.frac_end - m.int_end - 1 ELSE 0)
               - ExponentOf(s, m)]

\* a float's text that json reads with float(): its sign, the digits before
\* and after the point, and how many of them come after the point once the
\* exponent has moved it
NumberParts(s) == PartsOf(s, match_number(s, 1))

\* ---- float(text) as json.load calls it, and what pydantic makes of the
\* float for an int field. float() gives the double nearest to the decimal
\* number, a tie going to the double with the even mantissa; pydantic
\* (float_as_int) takes the double when it is finite, has no fractional
\* part and lies strictly between -2**63 and 2**63. The decimal number is
\* held exactly, as the digits before and after its point.

Zeros(n) == [i \in 1..n |-> "0"]

RECURSIVE TrimZeros(_)
\* the digits after a point without the zeros at their end
TrimZeros(f) == IF f # << >> /\ f[Len(f)] = "0" THEN TrimZeros(SubSeq(f, 1, Len(f) - 1)) ELSE f

RECURSIVE LexLess(_, _)
\* of two numerals of one length the first is the smaller
LexLess(x, y) ==
    /\ x # << >>
    /\ \/ DigitVal(x[1]) < DigitVal(y[1])
       \/ x[1] = y[1] /\ LexLess(Tail(x), Tail(y))

\* of two natural numbers without leading zeros the first is the smaller
DigitsLess(x, y) == Len(x) < Len(y) \/ (Len(x) = Len(y) /\ LexLess(x, y))

RECURSIVE FracLess(_, _)
\* of two fractions, given by the digits after the point, the first is the
\* smaller
FracLess(f, g) ==
    IF g = << >> THEN FALSE
    ELSE IF f = << >> THEN \E i \in 1..Len(g) : g[i] # "0"
    ELSE IF f[1] = g[1] THEN FracLess(Tail(f), Tail(g))
    ELSE DigitVal(f[1]) < DigitVal(g[1])
FracLeq(f, g) == ~FracLess(g, f)

\* twice a natural number: a digit from 5 on carries one into the digit
\* before it
DoubledDigit(d, i) ==
    (2 * (IF i = 0 THEN 0 ELSE DigitVal(d[i]))
       + (IF i < Len(d) /\ DigitVal(d[i + 1]) >= 5 THEN 1 ELSE 0)) % 10
Doubled(d) ==
    Significant(<< "0" >> \o [i \in 1..(Len(d) + 1) |-> DigitChar(DoubledDigit(d, i - 1))])

RECURSIVE Times2(_, _)
\* the natural number times 2**j
Times2(d, j) == IF j = 0 \/ Len(d) < 0 THEN d ELSE Times2(Doubled(d), j - 1)

\* 2**k as a numeral
Pow2(k) == Times2(<< "1" >>, k)

\* the fraction, given by its digits after the point, is at most 2**-j:
\* its digits read as a natural number, times 2**j, are at most ten to
\* their number
AtMostPow2Neg(f, j) ==
    \A one \in { << "1" >> \o Zeros(Len(f)) } :
        \A d \in { Times2(Significant(f), j) } : d = one \/ DigitsLess(d, one)

RECURSIVE Succ(_)
\* the natural number plus one; the empty numeral is zero
Succ(d) ==
    IF d = << >> THEN << "1" >>
    ELSE IF d[Len(d)] = "9" THEN Succ(SubSeq(d, 1, Len(d) - 1)) \o << "0" >>
    ELSE SubSeq(d, 1, Len(d) - 1) \o << DigitChar(DigitVal(d[Len(d)]) + 1) >>

\* one minus a fraction that is not zero and ends in no zero
OneMinus(f) ==
    Tail(<< "0" >> \o [i \in 1..Len(f) |->
                          DigitChar((IF i = Len(f) THEN 10 ELSE 9) - DigitVal(f[i]))])

RECURSIVE Log2From(_, _, _)
\* the k >= from with 2**k <= n < 2**(k+1), for a natural number n >= 2**from;
\* next is 2**(from+1)
Log2From(n, from, next) ==
    IF DigitsLess(n, next) THEN from ELSE Log2From(n, from + 1, Doubled(next))
Log2(n) == Log2From(n, 0, << "2" >>)

\* the doubles from 2**k to 2**(k+1) lie 2**(k-52) apart: a number above
\* the integer n of that range rounds to n when it is at most 2**(k-53)
\* above it (the mantissa of n is even for k <= 51)
AboveExp(n) == 53 - Log2(n)
\* a number below n rounds to n when it is at most 2**(k-53) below it, and
\* 2**(k-54) when n is 2**k, the doubles below which lie half as far apart
BelowExpAt(n, k) == IF n = Pow2(k) THEN 54 - k ELSE 53 - k
BelowExp(n) == BelowExpAt(n, Log2(n))

\* the number int.frac, below 2**52, rounds to the integer int
RoundsDown(int, frac) == int # << >> /\ AtMostPow2Neg(frac, AboveExp(int))
\* it rounds to the integer after int
RoundsUp(int, frac) ==
    frac # << >> /\ AtMostPow2Neg(OneMinus(frac), BelowExp(Succ(int)))

\* the digits of 2**-1075, half the least double, from the first that is
\* not zero, which is the 324th after the point: 5**1075
HalfLeastDouble ==
    Chars("24703282292062327208828439643411068618252990130716238221279284125033775363510437") \o
    Chars("59326499181808179961898982823477228588654633283551779698981993873980053909390631") \o
    Chars("50356595155702263922908583924491051844359318028499365361525003193704576782492193") \o
    Chars("65623669863658480757001585769269903706311928279558551332927834338409351978015531") \o
    Chars("24659726357957462276646527282722005637400648549997709659947045402082816622623785") \o
    Chars("73934507363390079677619305775067401763246736009689513405355374585166611342237666") \o
    Chars("78604162159680461914467291840300530057530849048765391711386591646239524912623653") \o
    Chars("88187963623937328042389101867234849766823508986338858792562830275599565752445550") \o
    Chars("72551893136908362547791869486679949683240497058210285131854513962138377228261454") \o
    Chars("37693412532098591327667236328125")

\* the least number that float() rounds to 2**63 or more: 2**63 - 2**9, the
\* middle between the last double below 2**63 and 2**63, whose mantissa is
\* the even one
TooLarge == Chars("9223372036854775296")

\* float() of the number int.frac, which is not zero, is one pydantic takes
\* for an int: from 2**52 on every double is an integer
DoubleIsInt(int, frac) ==
    IF ~DigitsLess(int, TooLarge) THEN FALSE
    ELSE IF ~DigitsLess(int, Pow2(52)) THEN TRUE
    ELSE RoundsDown(int, frac) \/ RoundsUp(int, frac)

\* the digits before and after the point of the number 0.sig * 10**m
IntPart(sig, m) ==
    IF m <= 0 THEN << >>
    ELSE IF Len(sig) >= m THEN SubSeq(sig, 1, m)
    ELSE sig \o Zeros(m - Len(sig))
FracPart(sig, m) ==
    TrimZeros(IF m <= 0 THEN Zeros(0 - m) \o sig ELSE SubSeq(sig, m + 1, Len(sig)))

\* the number 0.sig * 10**m, sig its digits from the first that is not
\* zero: float() gives zero up to 2**-1075, half the least double, which is
\* 0.2470... * 10**-323
SigIntegral(sig, m) ==
    IF sig = << >> THEN TRUE
    ELSE IF m > 19 THEN FALSE
    ELSE IF m < 0 - 323 THEN TRUE
    ELSE IF m = 0 - 323 THEN FracLeq(sig, HalfLeastDouble)
    ELSE IF m < 0 THEN FALSE
    ELSE DoubleIsInt(IntPart(sig, m), FracPart(sig, m))

\* the number of the parts p, whose digits from the first that is not zero
\* are sig
PartsIntegral(p, sig) == SigIntegral(sig, Len(sig) - p.shift)
IntegralParts(p) == PartsIntegral(p, Significant(p.digits))

\* pydantic takes the float for an int field
FloatIsInt(s) ==
    IF s[1] \in { "N", "I" } \/ CharAt(s, 2) = "I" THEN FALSE
    ELSE IntegralParts(NumberParts(s))

\* the integer float() of int.frac is, when it is one; beyond the integers
\* TLC computes with there is no value
DoubleInt(int, frac) ==
    IF frac = << >> \/ RoundsDown(int, frac) THEN DigitsVal(int) ELSE DigitsVal(int) + 1

SigInt(sig, m) ==
    IF sig = << >> \/ m < 0 THEN 0 ELSE DoubleInt(IntPart(sig, m), FracPart(sig, m))
PartsMagnitude(p, sig) == SigInt(sig, Len(sig) - p.shift)
PartsInt(p) ==
    IF p.negative THEN 0 - PartsMagnitude(p, Significant(p.digits))
    ELSE PartsMagnitude(p, Significant(p.digits))

\* int(x) of such a float
FloatInt(s) == PartsInt(NumberParts(s))

\* ------------------------------------------------------ generation capability
\* JSON values of a candidate's fields: a string, or something that is none
JStr(s) == [t |-> "str", s |-> s]
JNull == [t |-> "null", s |-> << >>]

QAKeys == { "question", "answer", "context" }

\* a candidate carrying all three fields
FullCand(q) == [k \in QAKeys |-> IF k = "question" THEN JStr(q) ELSE JStr(<< "A" >>)]
\* a candidate with a question only
QuestionOnlyCand(q) == [k \in { "question" } |-> JStr(q)]
\* a candidate with all three keys whose context is not a string
NullContextCand(q) == [k \in QAKeys |-> IF k = "context" THEN JNull ELSE JStr(q)]

Returns(items) == [kind |-> "return", items |-> items, exc |-> "-"]
Raises(e) == [kind |-> "raise", items |-> << >>, exc |-> e]

\* the question asked at a difficulty: levels 1 and 2 ask the same question
\* up to case and surrounding blanks
QuestionFor(d) ==
    IF d = 1 THEN << "Q", "1" >> ELSE IF d = 2 THEN << "q", "1", " " >> ELSE << "Q", "2" >>

\* a complete candidate followed by one that lacks answer and context
OnePair(d) == Returns(<< FullCand(QuestionFor(d)), QuestionOnlyCand(QuestionFor(d)) >>)

\* the behaviours of client.generate_qa_pairs that are modelled:
\*   steady  one complete candidate per call;
\*   sparse  the same, and an empty list at level 2;
\*   picky   the same, and a candidate with a null context for level 1 of
\*           the second page;
\*   flaky   the same, or RetryError once tenacity's retries are used up;
\*   garbled the same, and a question holding a lone surrogate for level 1
\*           of the second page.
\* All but flaky are deterministic.
Capabilities == { "steady", "sparse", "picky", "flaky", "garbled" }
Deterministic(cap) == cap # "flaky"

\* what a call for unit u = << page index, difficulty >> may do
OutcomesOf(cap, u) ==
    CASE cap = "steady" -> { OnePair(u[2]) }
      [] cap = "sparse" -> { IF u[2] = 2 THEN Returns(<< >>) ELSE OnePair(u[2]) }
      [] cap = "picky" -> { IF u = << 2, 1 >> THEN Returns(<< NullContextCand(QuestionFor(1)) >>)
                            ELSE OnePair(u[2]) }
      [] cap = "flaky" -> { OnePair(u[2]), Raises("RetryError") }
      [] cap = "garbled" -> { IF u = << 2, 1 >>
                              THEN Returns(<< FullCand(<< "Q", LoneSurrogate >>) >>)
                              ELSE OnePair(u[2]) }

\* ---------------------------------------------------------------- QAPair
\* pydantic validation of QAPair(question, answer, context, ...): every one of
\* the three must be a string
PairValid(item) == \A k \in QAKeys : item[k].t = "str"

QAPair(item, difficulty, source_file, page_num) ==
    [question |-> item["question"].s, answer |-> item["answer"].s,
     context |-> item["context"].s, difficulty |-> difficulty,
     source_file |-> source_file, page_num |-> page_num]

\* all(key in item for key in ["question", "answer", "context"])
HasAllKeys(item) == QAKeys \subseteq DOMAIN item

Kept(items) == SelectSeq(items, HasAllKeys)

\* generate_from_page: the outcome of the call, then one pair per candidate
\* that carries the three keys; a ValidationError (a ValueError) of the first
\* ill-typed one ends the comprehension
generate_from_page(page, difficulty, out) ==
    IF out.kind = "raise" THEN [ok |-> FALSE, exc |-> out.exc, pairs |-> << >>]
    ELSE LET kept == Kept(out.items)
         IN  IF \E i \in 1..Len(kept) : ~PairValid(kept[i])
             THEN [ok |-> FALSE, exc |-> "ValidationError", pairs |-> << >>]
             ELSE [ok |-> TRUE, exc |-> "-",
                   pairs |-> [i \in 1..Len(kept) |->
                                QAPair(kept[i], difficulty, page.source_file, page.page_num)]]

\* except (ValueError, IndexError): pydantic's ValidationError and
\* UnicodeEncodeError are ValueErrors
CaughtByPageLoop(exc) ==
    exc \in { "ValueError", "IndexError", "ValidationError", "UnicodeEncodeError" }

\* ------------------------------------------------------ QAGenerationState
\* JSON values of a progress file's fields: a number is held as its text
JInt(n) == [t |-> "int", s |-> IntText(n)]
JList(xs) == [t |-> "list", s |-> xs]
JObj(members) == [t |-> "obj", s |-> members]
\* a number with a fraction or an exponent, NaN, Infinity or -Infinity, held
\* as its text; true or false
JFloat(text) == [t |-> "float", s |-> text]
JBool(b) == [t |-> "bool", s |-> IF b THEN Chars("true") ELSE Chars("false")]

\* the fields of QAPair that are strings, and all of them
PairStrKeys == { "question", "answer", "context", "source_file" }
PairIntKeys == { "difficulty", "page_num" }

\* qa.model_dump()
model_dump(qa) ==
    JObj([k \in PairStrKeys \cup PairIntKeys |->
            IF k \in PairIntKeys THEN JInt(qa[k]) ELSE JStr(qa[k])])

\* where the text's first "." is, 0 when it has none
PointAt(s) ==
    IF \E i \in 1..Len(s) : s[i] = "."
    THEN CHOOSE i \in 1..Len(s) : s[i] = "." /\ \A j \in 1..(i - 1) : s[j] # "."
    ELSE 0

\* pydantic reads an int field from a str (lax mode): the white space at the
\* ends is trimmed, and a "." that one zero or more, and nothing else,
\* follow is dropped with them, so that "7.0" and "07.00" read as 7; a "."
\* at the end of the text stays, and "7." is no integer
LaxIntText(s) ==
    LET t == Trim(s, IntWhitespace)
        p == PointAt(t)
    IN  IF p > 0 /\ p < Len(t) /\ \A j \in (p + 1)..Len(t) : t[j] = "0"
        THEN SubSeq(t, 1, p - 1)
        ELSE t

\* pydantic validates an int field (lax mode) from an integer, from a bool,
\* from a float that is finite and has no fractional part, and from a string
\* whose text, read so, is one sign at most and digits, with single
\* underscores between them
IntField(v) ==
    \/ v.t \in { "int", "bool" }
    \/ v.t = "float" /\ FloatIsInt(v.s)
    \/ /\ v.t = "str"
       /\ LET u == LaxIntText(v.s)
          IN  Grouped(IF u # << >> /\ Head(u) \in { "+", "-" } THEN Tail(u) ELSE u)
IntValue(v) ==
    CASE v.t = "str" -> IntOf(LaxIntText(v.s))
      [] v.t = "bool" -> IF v = JBool(TRUE) THEN 1 ELSE 0
      [] v.t = "float" -> FloatInt(v.s)
      [] OTHER -> IntOf(v.s)

\* QAPair(**qa) raises: qa is no mapping, a field is missing or a value has
\* the wrong type
PairRaises(v) ==
    \/ v.t # "obj"
    \/ ~(PairStrKeys \cup PairIntKeys \subseteq DOMAIN v.s)
    \/ \E k \in PairStrKeys : v.s[k].t # "str"
    \/ \E k \in PairIntKeys : ~IntField(v.s[k])

\* QAPair(**qa): the six fields, any other key of qa is ignored
PairFromDict(v) ==
    [k \in PairStrKeys \cup PairIntKeys |->
        IF k \in PairIntKeys THEN IntValue(v.s[k]) ELSE v.s[k].s]

\* datetime.isoformat() and datetime.fromisoformat(): the text of a time
isoformat(t) == JStr(<< "T" >> \o Digits(t))
IsIsoformat(v) == v.t = "str" /\ Len(v.s) >= 2 /\ v.s[1] = "T" /\ AllDigits(Tail(v.s))
fromisoformat(v) == DigitsVal(Tail(v.s))

\* the fields of QAGenerationState and the JSON type each one validates from
StateKeys == { "file_stem", "markdown_path", "max_difficulty", "current_page_idx",
               "current_difficulty", "total_pages", "generated_qa_pairs",
               "existing_questions", "created_at", "updated_at" }
FieldType(k) ==
    CASE k \in { "file_stem", "markdown_path", "created_at", "updated_at" } -> "str"
      [] k \in { "max_difficulty", "current_page_idx", "current_difficulty",
                 "total_pages" } -> "int"
      [] OTHER -> "list"

\* QAGenerationState.to_dict
to_dict(st) ==
    [file_stem |-> JStr(st.file_stem), markdown_path |-> JStr(st.markdown_path),
     max_difficulty |-> JInt(st.max_difficulty),
     current_page_idx |-> JInt(st.current_page_idx),
     current_difficulty |-> JInt(st.current_difficulty),
     total_pages |-> JInt(st.total_pages),
     generated_qa_pairs |->
         JList([i \in 1..Len(st.generated_qa_pairs) |-> model_dump(st.generated_qa_pairs[i])]),
     existing_questions |->
         JList([i \in 1..Len(st.existing_questions) |-> JStr(st.existing_questions[i])]),
     created_at |-> isoformat(st.created_at), updated_at |-> isoformat(st.updated_at)]

\* the value validates as the field: an int field also from a string that
\* reads as an integer; generated_qa_pairs is given the list the
\* comprehension builds, which iterates a list, an object (its keys) or a
\* string (its characters) and raises TypeError on a number or null
FieldValid(k, v) ==
    IF k = "generated_qa_pairs" THEN v.t \in { "list", "obj", "str" }
    ELSE IF FieldType(k) = "int" THEN IntField(v)
    ELSE v.t = FieldType(k)

\* [QAPair(**qa) for qa in v] raises: an element of a list is no pair; a key
\* of an object or a character of a string is a str, which is no mapping,
\* so that only the empty object and the empty string pass; a number, a
\* bool or null cannot be iterated
PairsRaise(v) ==
    IF v.t = "list" THEN \E i \in 1..Len(v.s) : PairRaises(v.s[i])
    ELSE IF v.t \in { "obj", "str" } THEN DOMAIN v.s # {}
    ELSE TRUE

\* [QAPair(**qa) for qa in v], when it does not raise
PairsFromDict(v) ==
    IF v.t = "list" THEN [i \in 1..Len(v.s) |-> PairFromDict(v.s[i])] ELSE << >>

\* QAGenerationState.from_dict raises: KeyError for a missing key, TypeError
\* or ValidationError for an element of generated_qa_pairs that is no pair,
\* ValueError for a time that is no ISO text, pydantic's ValidationError for
\* a value of the wrong type or a question that is no string
from_dict_raises(d) ==
    \/ ~(StateKeys \subseteq DOMAIN d)
    \/ \E k \in StateKeys : ~FieldValid(k, d[k])
    \/ PairsRaise(d["generated_qa_pairs"])
    \/ \E i \in 1..Len(d["existing_questions"].s) : d["existing_questions"].s[i].t # "str"
    \/ ~IsIsoformat(d["created_at"])
    \/ ~IsIsoformat(d["updated_at"])

\* QAGenerationState.from_dict, when it does not raise
from_dict(d) ==
    [file_stem |-> d.file_stem.s, markdown_path |-> d.markdown_path.s,
     max_difficulty |-> IntValue(d.max_difficulty),
     current_page_idx |-> IntValue(d.current_page_idx),
     current_difficulty |-> IntValue(d.current_difficulty),
     total_pages |-> IntValue(d.total_pages),
     generated_qa_pairs |-> PairsFromDict(d.generated_qa_pairs),
     existing_questions |->
         [i \in 1..Len(d.existing_questions.s) |-> d.existing_questions.s[i].s],
     created_at |-> fromisoformat(d.created_at), updated_at |-> fromisoformat(d.updated_at)]

\* ------------------------------------------------------- QAProgressManager
\* the progress directory: a function from file names to file contents; a
\* file's content is the JSON text written so far: the dictionary it
\* serialises, and whether the text is complete
NoFiles == << >>

get_progress_path(file_stem) == file_stem \o Chars("_qa_progress.json")

\* a write that leaves an existing file as it is (a faulty variant)
PutFile_KeepsExisting(files, path, content) ==
    [p \in DOMAIN files \cup { path } |-> IF p \in DOMAIN files THEN files[p] ELSE content]

\* open(path, "w") and the write: the file holds the new content only
PutFile(files, path, content) ==
    [p \in DOMAIN files \cup { path } |-> IF p = path THEN content ELSE files[p]]

RemoveFile(files, path) == [p \in DOMAIN files \ { path } |-> files[p]]

\* save_state, first half: updated_at is set and open("w") truncates the file;
\* the text in it is a proper prefix of the new state's JSON
save_state_open(files, st, now) ==
    PutFile(files, get_progress_path(st.file_stem),
            [data |-> to_dict([st EXCEPT !.updated_at = now]), full |-> FALSE])

\* save_state, second half: json.dump has written everything
save_state_done(files, st, now) ==
    PutFile(files, get_progress_path(st.file_stem),
            [data |-> to_dict([st EXCEPT !.updated_at = now]), full |-> TRUE])

\* load_state that takes the text written so far for the whole file (a faulty
\* variant)
load_state_IgnoresTextEnd(files, file_stem) ==
    LET path == get_progress_path(file_stem)
    IN  IF path \notin DOMAIN files THEN None
        ELSE IF from_dict_raises(files[path].data) THEN None
        ELSE Some(from_dict(files[path].data))

\* load_state: None when the file is missing, when json.load raises on an
\* incomplete text and when from_dict raises ("except Exception")
load_state(files, file_stem) ==
    LET path == get_progress_path(file_stem)
    IN  IF path \notin DOMAIN files THEN None
        ELSE IF ~files[path].full THEN None
        ELSE IF from_dict_raises(files[path].data) THEN None
        ELSE Some(from_dict(files[path].data))

\* a delete_state that clears the progress directory (a faulty variant)
delete_state_Everything(files, file_stem) == NoFiles

\* delete_state
delete_state(files, file_stem) ==
    LET path == get_progress_path(file_stem)
    IN  IF path \in DOMAIN files THEN RemoveFile(files, path) ELSE files

\* validate_state without the max_difficulty comparison (a faulty variant)
validate_state_IgnoresDifficulty(st, markdown_path, max_difficulty, exists) ==
    PathOf(st.markdown_path) = markdown_path /\ exists

\* validate_state; exists is markdown_path.exists()
validate_state(st, markdown_path, max_difficulty, exists) ==
    /\ PathOf(st.markdown_path) = markdown_path
    /\ st.max_difficulty = max_difficulty
    /\ exists


\* json.dump(state.to_dict(), f, indent=2, ensure_ascii=False) into a file
\* opened with encoding="utf-8" can write the whole text: every string of
\* the state can be encoded
StateEncodable(state) ==
    \A st \in { state } :
        /\ Encodable(st.file_stem)
        /\ Encodable(st.markdown_path)
        /\ \A i \in 1..Len(st.generated_qa_pairs) :
               \A k \in PairStrKeys : Encodable(st.generated_qa_pairs[i][k])
        /\ \A i \in 1..Len(st.existing_questions) : Encodable(st.existing_questions[i])

\* ------------------------------------------------------- IterativeRefinement
RECURSIVE DedupFrom(_, _)
DedupFrom(pairs, seen) ==
    IF pairs = << >> THEN << >>
    ELSE LET question_lower == Strip(Lower(Head(pairs).question))
         IN  IF question_lower \notin seen
             THEN << Head(pairs) >> \o DedupFrom(Tail(pairs), seen \cup { question_lower })
             ELSE DedupFrom(Tail(pairs), seen)

\* deduplicate_qa_pairs
deduplicate_qa_pairs(pairs) == DedupFrom(pairs, {})

\* ------------------------------------------------------------- save_as_jsonl
\* every field of the pair written (a faulty variant)
JsonLine_AllFields(qa) == qa

\* one JSON object per pair
JsonLine(qa) == [question |-> qa.question, answer |-> qa.answer, context |-> qa.context]
JsonLines(pairs) == [i \in 1..Len(pairs) |-> JsonLine(pairs[i])]

\* f.write(json_line) succeeds for every line: the output file is opened
\* with encoding="utf-8" and json.dumps keeps non-ASCII characters
LinesEncodable(pairs) ==
    \A i \in 1..Len(pairs) : \A k \in QAKeys : Encodable(pairs[i][k])

\* what is left of a line whose text was not written to its end
PartialLine(line) == [cut |-> line]
IsWholeLine(line) == DOMAIN line = QAKeys

\* the output file after a write that failed or was interrupted, lines
\* being those handed to f.write and rest the pairs not yet written: the
\* text is cut after a line, or inside one, the one being written included
CutOutputs(lines, rest) ==
    { SubSeq(lines, 1, k) : k \in 0..Len(lines) }
    \cup { Append(SubSeq(lines, 1, k - 1), PartialLine(lines[k])) : k \in 1..Len(lines) }
    \cup (IF rest # << >> /\ LinesEncodable(<< rest[1] >>)
          THEN { Append(lines, PartialLine(JsonLine(rest[1]))) }
          ELSE { })

\* --------------------------------------------------------------------- state
VARIABLES
    file_name,          \* the input document's name (file_path.name)
    md_exists,          \* md_path.exists(): the document has a markdown file
    pages,              \* the markdown file's segments, pages[1:] of the code;
                        \* none when the file is empty or missing
    run,                \* process_single_file runs started so far; the clock
    data_dir,           \* --data-dir of the current run
    max_difficulty,     \* --max-difficulty of the current run
    force_restart,      \* --force-restart of the current run
    pc,                 \* where the current run is
    resume_state,       \* resume_state passed to generate_from_markdown
    all_qa_pairs,       \* the engine's accumulator
    existing_questions, \* the engine's list of questions
    total_qa_pairs,     \* the engine's counter
    page_idx,           \* the page loop's index
    difficulty,         \* the difficulty loop's value
    qa_pairs,           \* the orchestrator's qa_pairs after deduplication
    output,             \* the output .jsonl file: None, or its lines
    wrote,              \* save_as_jsonl of the current run has opened the output file
    result,             \* what process_single_file returned: None or << n >>
    store,              \* the files of data_dir/progress
    capability,         \* how client.generate_qa_pairs behaves
    invokedBefore,      \* units invoked by the saved part of the runs this run resumes
    invoked,            \* units invoked by this run, in order
    savedInvoked,       \* invokedBefore \o invoked, as of the last completed save_state
    savedUnit,          \* the unit whose completion the last completed save followed
    resumeUnit,         \* savedUnit of the checkpoint this run resumed from
    lastWrite,          \* the progress files as the run found them at the start of
                        \* generation, or as its last save_state call left them
    runSaved,           \* the state written by the last completed save_state of the
                        \* current run (of the last run, once it has ended)
    loaded,             \* existing_state, what load_state gave this run, until
                        \* generation starts
    accepted,           \* the user was asked whether to resume and accepted
    lastCompleted,      \* the last unit this run completed
    raised,             \* the unit in which, or in whose save, an exception was
                        \* last raised in this run
    failedAt,           \* the step whose failure ended the run
    savesSinceUnit,     \* save_state calls completed since the last completed unit
    call,               \* a function applied on its own: its name and arguments
    ret,                \* what that function returned: None or << value >>
    files_to_process,   \* process_files: files, the documents found, sorted
    file_idx,           \* process_files: how many of them the loop has taken
    attempted,          \* the documents process_single_file was called for, in order
    outcomes,           \* how each finished call ended: "done" or "failed"
    batch_total,        \* process_files: total_qa_pairs, the sum of the counts returned
    written,            \* the lines the save_as_jsonl of each finished call left
                        \* in the output file, 0 for a call that did not reach it
    avoid,              \* existing_questions as client.generate_qa_pairs received
                        \* it in the run's last invocation: None or << list >>
    progress            \* the calls of progress_callback in this run, in order

vars == << file_name, md_exists, pages, run, data_dir, max_difficulty, force_restart, pc,
           resume_state, all_qa_pairs, existing_questions, total_qa_pairs, page_idx,
           difficulty, qa_pairs, output, wrote, result, store, capability, invoked,
           savedInvoked, savedUnit, resumeUnit, lastWrite, raised, failedAt,
           savesSinceUnit, invokedBefore, runSaved, loaded, accepted, lastCompleted,
           call, ret, files_to_process, file_idx, attempted,
           outcomes, batch_total, written, avoid, progress >>

\* the loop of process_files
batch == << files_to_process, file_idx, attempted, outcomes, batch_total, written >>
\* the markdown file of the document, and its output file
mdFile == << md_exists, pages >>
outFile == << output, wrote >>
\* what no step of the generation changes
inputs == << file_name, mdFile, capability, call, ret, batch >>
\* what the checkpoint resolution sets and the start of generation clears
resolution == << loaded, accepted >>
runArgs == << data_dir, max_difficulty, force_restart >>
\* what the engine hands to the client and to the progress callback
calls == << avoid, progress >>
engine == << resume_state, all_qa_pairs, existing_questions, total_qa_pairs,
             page_idx, difficulty >>

\* the user's answers to a [Y/n] prompt, already stripped and lowered
UserResponses == { "", "n" }
Accepts(response) == response \in { "", "y", "yes" }

\* md_path = data_dir / "processed" / f"{file_path.stem}.md"
MarkdownPathOf(dir, name) ==
    Div(Div(PathOf(dir), Chars("processed")), Stem(name) \o Chars(".md"))
markdown_path == MarkdownPathOf(data_dir, file_name)

\* file_path.name in place of file_path.stem (a faulty variant)
OrchestratorKey_Name(name) == name

\* the key of the orchestrator's load_state and delete_state: file_path.stem
OrchestratorKey(name) == Stem(name)

\* the key the engine saves under: markdown_path.stem
EngineKey(mdpath) == PathStem(mdpath)

Now == run

start_page_idx == IF resume_state # None THEN resume_state[1].current_page_idx ELSE 1
start_difficulty == IF resume_state # None THEN resume_state[1].current_difficulty ELSE 1

\* the pages counted that parse only (a faulty variant)
total_pages_ParsedOnly ==
    Cardinality({ i \in 1..Len(pages) : pages[i].body /\ IntParses(pages[i].hdr) })

\* one subtracted once more from the number of pages (a faulty variant)
total_pages_OneLess == Len(pages) - 1

\* total_pages = len(pages) - 1
total_pages == Len(pages)


EngineIdle ==
    /\ resume_state' = None
    /\ all_qa_pairs' = << >>
    /\ existing_questions' = << >>
    /\ total_qa_pairs' = 0
    /\ page_idx' = 0
    /\ difficulty' = 0

\* what a run's start and an interruption clear
RunCleared ==
    /\ EngineIdle
    /\ qa_pairs' = << >>
    /\ result' = None
    /\ raised' = None
    /\ lastCompleted' = None
    /\ failedAt' = "-"
    /\ savesSinceUnit' = 0
    /\ resumeUnit' = None
    /\ invokedBefore' = << >>
    /\ invoked' = << >>
    /\ lastWrite' = NoFiles
    /\ loaded' = None
    /\ accepted' = FALSE
    /\ avoid' = None
    /\ progress' = << >>

\* nothing has run yet: everything but the progress files
IdleRun ==
    /\ files_to_process = << >>
    /\ file_idx = 0
    /\ attempted = << >>
    /\ outcomes = << >>
    /\ batch_total = 0
    /\ written = << >>
    /\ avoid = None
    /\ progress = << >>
    /\ run = 0
    /\ data_dir = << "d" >>
    /\ max_difficulty = 1
    /\ force_restart = FALSE
    /\ pc = "idle"
    /\ resume_state = None
    /\ all_qa_pairs = << >>
    /\ existing_questions = << >>
    /\ total_qa_pairs = 0
    /\ page_idx = 0
    /\ difficulty = 0
    /\ qa_pairs = << >>
    /\ output = None
    /\ wrote = FALSE
    /\ result = None
    /\ invokedBefore = << >>
    /\ invoked = << >>
    /\ savedInvoked = << >>
    /\ savedUnit = None
    /\ resumeUnit = None
    /\ lastWrite = NoFiles
    /\ runSaved = None
    /\ loaded = None
    /\ accepted = FALSE
    /\ lastCompleted = None
    /\ raised = None
    /\ failedAt = "-"
    /\ savesSinceUnit = 0

\* nothing has run yet and the progress directory is empty
Idle == IdleRun /\ store = NoFiles

\* the markdown file a run may find: none, or the document a conversion wrote
MarkdownFound ==
    /\ md_exists \in BOOLEAN
    /\ pages \in IF md_exists THEN Documents ELSE { << >> }

\* the document of the runs: the name with two dots, whose stem is not the
\* name up to its first dot
Init ==
    /\ file_name = << "a", ".", "b", ".", "p", "d", "f" >>
    /\ MarkdownFound
    /\ capability \in Capabilities
    /\ Idle
    /\ call = None
    /\ ret = None

\* ------------------------------------------------------ process_single_file
\* the command is run on the document: a first run, or a re-run after the
\* previous one returned or was interrupted
StartRun ==
    /\ pc \in { "idle", "crashed", "done", "failed" }
    /\ run < MaxRuns
    /\ run' = run + 1
    /\ data_dir' = data_dir
    /\ max_difficulty' \in 1..MaxDiff
    /\ force_restart' \in BOOLEAN
    /\ pc' = "convert"
    /\ RunCleared
    /\ runSaved' = None
    /\ wrote' = FALSE
    /\ UNCHANGED << inputs, output, store, savedInvoked, savedUnit >>

\* what a step of the conversion leaves alone besides the pages
convertFrame == << file_name, capability, call, ret, batch, run, runArgs, engine, qa_pairs,
                  outFile, result, store, invokedBefore, invoked, savedInvoked, savedUnit,
                  resumeUnit, lastWrite, runSaved, resolution, calls, lastCompleted, raised,
                  failedAt, savesSinceUnit >>

\* what a conversion of the document may write: the recognition gives the
\* text of a page differently from one conversion to the next, and a text
\* that holds "## Page " makes further segments
Reconversions(p) == Documents

\* md_path.exists(): the progress bar stops and the user is asked
\* "Use existing file? [Y/n]"
ConvertAsk ==
    /\ pc = "convert"
    /\ md_exists
    /\ pc' = "convert_ask"
    /\ UNCHANGED << mdFile, convertFrame >>

\* the answer is "", "y" or "yes": the existing markdown file is used
ConvertUse ==
    /\ pc = "convert_ask"
    /\ \E response \in UserResponses : Accepts(response)
    /\ pc' = "load"
    /\ UNCHANGED << mdFile, convertFrame >>

\* there is no markdown file, or the user's answer is another one:
\* save_as_markdown is awaited
ConvertBegin ==
    /\ \/ pc = "convert" /\ ~md_exists
       \/ pc = "convert_ask" /\ \E response \in UserResponses : ~Accepts(response)
    /\ pc' = "converting"
    /\ UNCHANGED << mdFile, convertFrame >>

\* save_as_markdown has processed the pages: write_text opens the markdown
\* file for writing, which makes it or empties it
ConvertOpen ==
    /\ pc = "converting"
    /\ md_exists' = TRUE
    /\ pages' = << >>
    /\ pc' = "md_writing"
    /\ UNCHANGED convertFrame

\* write_text writes the text of the pages and closes the file
Convert ==
    /\ pc = "md_writing"
    /\ pages' \in Reconversions(pages)
    /\ pc' = "load"
    /\ UNCHANGED << md_exists, convertFrame >>

\* the prompt or the conversion raises: "PDF processing failed", return 0;
\* the markdown file is as the step found it, or holds what write_text
\* wrote before it raised
ConvertFail ==
    /\ pc \in { "convert", "convert_ask", "converting", "md_writing" }
    /\ pages' \in IF pc = "md_writing" THEN PartialDocuments ELSE { pages }
    /\ pc' = "failed"
    /\ result' = Some(0)
    /\ failedAt' = "convert"
    /\ UNCHANGED << file_name, md_exists, capability, call, ret, batch,
                    run, runArgs, engine, qa_pairs, outFile, store,
                    invokedBefore, invoked, savedInvoked, savedUnit, resumeUnit,
                    lastWrite, runSaved, resolution, calls, lastCompleted, raised,
                    savesSinceUnit >>

\* whether the user is asked "Resume from previous progress? [Y/n]"
Prompted(existing, mdpath, maxd, force) ==
    /\ existing # None
    /\ validate_state(existing[1], mdpath, maxd, TRUE)
    /\ ~force

\* resuming without validate_state (a faulty variant)
Resumes_WithoutValidation(existing, mdpath, maxd, force, response) ==
    existing # None /\ ~force /\ Accepts(response)

\* whether the loaded checkpoint becomes the resume state
Resumes(existing, mdpath, maxd, force, response) ==
    Prompted(existing, mdpath, maxd, force) /\ Accepts(response)

\* the progress files after the checkpoint was resolved: every loaded
\* checkpoint that is not resumed from is deleted
ResolvedStore(files, name, existing, mdpath, maxd, force, response) ==
    IF existing # None /\ ~Resumes(existing, mdpath, maxd, force, response)
    THEN delete_state(files, OrchestratorKey(name))
    ELSE files

\* what the resolution of the checkpoint leaves alone
resolveFrame == << inputs, run, runArgs, all_qa_pairs, existing_questions, total_qa_pairs,
                  page_idx, difficulty, qa_pairs, outFile, invokedBefore, invoked,
                  savedInvoked, savedUnit, runSaved, lastCompleted, raised,
                  savesSinceUnit, calls >>

\* "Check for existing progress": load_state and validate_state; a
\* checkpoint that is invalid or not wanted (--force-restart) is deleted, for
\* a valid one the progress bar stops and the user is asked "Resume from
\* previous progress? [Y/n]"; the markdown file exists here, the conversion
\* step returned it
ResolveCheckpoint ==
    /\ pc = "load"
    /\ \E existing \in { load_state(store, OrchestratorKey(file_name)) } :
           IF Prompted(existing, markdown_path, max_difficulty, force_restart)
           THEN /\ pc' = "resume_ask"
                /\ loaded' = existing
                /\ UNCHANGED << store, lastWrite >>
           ELSE /\ pc' = "engine"
                /\ loaded' = existing
                /\ store' = ResolvedStore(store, file_name, existing, markdown_path,
                                          max_difficulty, force_restart, "")
                /\ lastWrite' = store'
    /\ resume_state' = None
    /\ resumeUnit' = None
    /\ accepted' = FALSE
    /\ UNCHANGED << resolveFrame, result, failedAt >>

\* the user answers: the loaded checkpoint becomes the resume state, or it
\* is deleted
ResolveAnswer ==
    /\ pc = "resume_ask"
    /\ \E response \in UserResponses :
         LET resumes == Resumes(loaded, markdown_path, max_difficulty, force_restart, response)
         IN  /\ resume_state' = IF resumes THEN loaded ELSE None
             /\ resumeUnit' = IF resumes THEN savedUnit ELSE None
             /\ store' = ResolvedStore(store, file_name, loaded, markdown_path,
                                       max_difficulty, force_restart, response)
             /\ lastWrite' = store'
             /\ accepted' = resumes
    /\ pc' = "engine"
    /\ UNCHANGED << resolveFrame, loaded, result, failedAt >>

\* the directory cannot be made, the prompt raises or delete_state raises:
\* "QA generation failed", return 0; no file has changed
ResolveFail ==
    /\ pc \in { "load", "resume_ask" }
    /\ pc' = "failed"
    /\ result' = Some(0)
    /\ failedAt' = "resolve"
    /\ resume_state' = None
    /\ resumeUnit' = None
    /\ loaded' = None
    /\ accepted' = FALSE
    /\ lastWrite' = store
    /\ UNCHANGED << resolveFrame, store >>

\* --------------------------------------------------- generate_from_markdown
\* "Initialize state based on resume or start fresh"
EngineInit ==
    /\ pc = "engine"
    /\ IF resume_state # None
       THEN /\ all_qa_pairs' = resume_state[1].generated_qa_pairs
            /\ existing_questions' = resume_state[1].existing_questions
            /\ total_qa_pairs' = Len(resume_state[1].generated_qa_pairs)
            /\ invokedBefore' = savedInvoked
            /\ UNCHANGED << savedInvoked, savedUnit >>
       ELSE /\ all_qa_pairs' = << >>
            /\ existing_questions' = << >>
            /\ total_qa_pairs' = 0
            /\ invokedBefore' = << >>
            /\ savedInvoked' = << >>
            /\ savedUnit' = None
    /\ page_idx' = 1
    /\ pc' = "page"
    /\ loaded' = None
    /\ accepted' = FALSE
    /\ UNCHANGED << inputs, run, runArgs, resume_state, difficulty, qa_pairs, outFile,
                    result, store, invoked, resumeUnit, lastWrite, runSaved,
                    lastCompleted, raised, failedAt, savesSinceUnit, calls >>

\* markdown_path.read_text raises (the file cannot be read or is no UTF-8):
\* generate_from_markdown raises before its loop, "QA generation failed",
\* return 0; the progress files are as the resolution left them
EngineReadFail ==
    /\ pc = "engine"
    /\ pc' = "failed"
    /\ result' = Some(0)
    /\ failedAt' = "generate"
    /\ resume_state' = None
    /\ resumeUnit' = None
    /\ loaded' = None
    /\ accepted' = FALSE
    /\ UNCHANGED << resolveFrame, store, lastWrite >>

\* every page started at level 1, the resume page too (a faulty variant)
page_start_difficulty_AlwaysOne(idx) == 1

\* page_start_difficulty
page_start_difficulty(idx) == IF idx = start_page_idx THEN start_difficulty ELSE 1

\* the page of the cursor skipped too (a faulty variant)
SkipsPage_CursorPageToo(idx) == idx <= start_page_idx

\* no page skipped (a faulty variant)
SkipsPage_Never(idx) == FALSE

\* the last page processed whatever the cursor (a faulty variant)
SkipsPage_LastPageNever(idx) == idx < start_page_idx /\ idx < Len(pages)

\* "Skip already processed pages"
SkipsPage(idx) == idx < start_page_idx

\* one iteration of the page loop, up to its first unit: the page is skipped
\* (no body after the header line, already processed, header no integer, no
\* difficulty left), or its first unit is next; after the last page the
\* engine returns
PageStep ==
    /\ pc = "page"
    /\ IF page_idx > Len(pages)
       THEN /\ pc' = "returned"
            /\ UNCHANGED << page_idx, difficulty >>
       ELSE IF \/ ~pages[page_idx].body
               \/ SkipsPage(page_idx)
               \/ ~IntParses(pages[page_idx].hdr)
               \/ page_start_difficulty(page_idx) > max_difficulty
       THEN /\ page_idx' = page_idx + 1
            /\ pc' = "page"
            /\ UNCHANGED difficulty
       ELSE /\ difficulty' = page_start_difficulty(page_idx)
            /\ pc' = "unit"
            /\ UNCHANGED page_idx
    /\ UNCHANGED << inputs, run, runArgs, resume_state, all_qa_pairs, existing_questions,
                    total_qa_pairs, qa_pairs, outFile, result, store, invokedBefore, invoked,
                    savedInvoked, savedUnit, resumeUnit, lastWrite, runSaved, resolution, calls,
                    lastCompleted, raised, failedAt, savesSinceUnit >>

\* the ProcessedPage of a segment
PageOf(idx) ==
    [page_num |-> IntOf(pages[idx].hdr), source_file |-> StrOfPath(markdown_path)]

\* the two arguments in the other order (a faulty variant)
ProgressCall_Swapped(current_qa, difficulty_level) ==
    [current_qa |-> difficulty_level, difficulty_level |-> current_qa]

\* update_qa_progress(current_qa, difficulty_level) as the callback is called
ProgressCall(current_qa, difficulty_level) ==
    [current_qa |-> current_qa, difficulty_level |-> difficulty_level]

\* generate_from_page hands no list to the client (a faulty variant)
ExistingOrEmpty_Dropped(existing) == << >>

\* "existing_questions or []", the list generate_from_page hands to
\* client.generate_qa_pairs
ExistingOrEmpty(existing) == IF existing = << >> THEN << >> ELSE existing

\* a unit begins: the callback, then generate_from_page for (page_idx,
\* difficulty) is awaited, the client called with the questions so far
InvokeBegin ==
    /\ pc = "unit"
    /\ invoked' = Append(invoked, << page_idx, difficulty >>)
    /\ avoid' = Some(ExistingOrEmpty(existing_questions))
    /\ progress' = Append(progress, ProgressCall(total_qa_pairs, difficulty))
    /\ pc' = "invoking"
    /\ UNCHANGED << inputs, run, runArgs, engine, qa_pairs, outFile, result, store,
                    invokedBefore, savedInvoked, savedUnit, resumeUnit, lastWrite, runSaved,
                    resolution, lastCompleted, raised, failedAt, savesSinceUnit >>

\* generate_from_page is over: the accumulators and the callback again; an
\* exception is caught by the page loop (next page) or leaves
\* generate_from_markdown (process_single_file returns 0)
Invoke ==
    /\ pc = "invoking"
    /\ \E out \in OutcomesOf(capability, << page_idx, difficulty >>) :
         LET u == << page_idx, difficulty >>
             r == generate_from_page(PageOf(page_idx), difficulty, out)
         IN  /\ progress' =
                    IF r.ok
                    THEN Append(progress, ProgressCall(total_qa_pairs + Len(r.pairs), difficulty))
                    ELSE progress
             /\ IF r.ok
                THEN /\ all_qa_pairs' = all_qa_pairs \o r.pairs
                     /\ existing_questions' =
                            existing_questions \o [i \in 1..Len(r.pairs) |-> r.pairs[i].question]
                     /\ total_qa_pairs' = total_qa_pairs + Len(r.pairs)
                     /\ pc' = "save"
                     /\ savesSinceUnit' = 0
                     /\ lastCompleted' = Some(u)
                     /\ UNCHANGED << resume_state, page_idx, difficulty, result, raised, failedAt >>
                ELSE IF CaughtByPageLoop(r.exc)
                THEN /\ page_idx' = page_idx + 1
                     /\ pc' = "page"
                     /\ raised' = Some(u)
                     /\ UNCHANGED << resume_state, all_qa_pairs, existing_questions,
                                     total_qa_pairs, difficulty, result, failedAt,
                                     savesSinceUnit, lastCompleted >>
                ELSE /\ pc' = "failed"
                     /\ result' = Some(0)
                     /\ failedAt' = "generate"
                     /\ raised' = Some(u)
                     /\ EngineIdle
                     /\ UNCHANGED << savesSinceUnit, lastCompleted >>
    /\ UNCHANGED << inputs, run, runArgs, qa_pairs, outFile, store, invokedBefore, invoked,
                    avoid, savedInvoked, savedUnit, resumeUnit, lastWrite, runSaved,
                    resolution >>

\* the next position without the rollover to the next page (a faulty variant)
NextCursor_NoRollover(idx, d, maxd) == << idx, d + 1 >>

\* "Calculate next position"
NextCursor(idx, d, maxd) == IF d < maxd THEN << idx, d + 1 >> ELSE << idx + 1, 1 >>

\* the state with the pairs accepted in this run only (a faulty variant)
CheckpointState_OnlyNewPairs ==
    [file_stem |-> EngineKey(markdown_path),
     markdown_path |-> StrOfPath(markdown_path),
     max_difficulty |-> max_difficulty,
     current_page_idx |-> NextCursor(page_idx, difficulty, max_difficulty)[1],
     current_difficulty |-> NextCursor(page_idx, difficulty, max_difficulty)[2],
     total_pages |-> total_pages,
     generated_qa_pairs |->
         IF resume_state # None
         THEN SubSeq(all_qa_pairs, Len(resume_state[1].generated_qa_pairs) + 1,
                     Len(all_qa_pairs))
         ELSE all_qa_pairs,
     existing_questions |-> existing_questions,
     created_at |-> IF resume_state # None THEN resume_state[1].created_at ELSE Now,
     updated_at |-> Now]

\* the state with the questions lower-cased and stripped (a faulty variant)
CheckpointState_NormalisedQuestions ==
    [file_stem |-> EngineKey(markdown_path),
     markdown_path |-> StrOfPath(markdown_path),
     max_difficulty |-> max_difficulty,
     current_page_idx |-> NextCursor(page_idx, difficulty, max_difficulty)[1],
     current_difficulty |-> NextCursor(page_idx, difficulty, max_difficulty)[2],
     total_pages |-> total_pages,
     generated_qa_pairs |-> all_qa_pairs,
     existing_questions |->
         [i \in 1..Len(existing_questions) |-> Strip(Lower(existing_questions[i]))],
     created_at |-> IF resume_state # None THEN resume_state[1].created_at ELSE Now,
     updated_at |-> Now]

\* the QAGenerationState built after a unit
CheckpointState ==
    [file_stem |-> EngineKey(markdown_path),
     markdown_path |-> StrOfPath(markdown_path),
     max_difficulty |-> max_difficulty,
     current_page_idx |-> NextCursor(page_idx, difficulty, max_difficulty)[1],
     current_difficulty |-> NextCursor(page_idx, difficulty, max_difficulty)[2],
     total_pages |-> total_pages,
     generated_qa_pairs |-> all_qa_pairs,
     existing_questions |-> existing_questions,
     created_at |-> IF resume_state # None THEN resume_state[1].created_at ELSE Now,
     updated_at |-> Now]

\* "if progress_manager:": the orchestrator always passes one; the engine
\* called on its own may have none
HasManager == IF call = None THEN TRUE ELSE call[1].progress_manager

\* no progress manager: nothing is saved and the difficulty loop goes on
SkipSave ==
    /\ pc = "save"
    /\ ~HasManager
    /\ IF difficulty + 1 <= max_difficulty
       THEN /\ difficulty' = difficulty + 1
            /\ pc' = "unit"
            /\ UNCHANGED page_idx
       ELSE /\ page_idx' = page_idx + 1
            /\ pc' = "page"
            /\ UNCHANGED difficulty
    /\ UNCHANGED << inputs, run, runArgs, resume_state, all_qa_pairs, existing_questions,
                    total_qa_pairs, qa_pairs, outFile, result, store, invokedBefore, invoked,
                    savedInvoked, savedUnit, resumeUnit, lastWrite, runSaved, resolution,
                    calls, lastCompleted, raised, failedAt, savesSinceUnit >>

\* progress_manager.save_state(state) opens the progress file for writing
SaveBegin ==
    /\ pc = "save"
    /\ HasManager
    /\ store' = save_state_open(store, CheckpointState, Now)
    /\ lastWrite' = store'
    /\ pc' = "saving"
    /\ UNCHANGED << inputs, run, runArgs, engine, qa_pairs, outFile, result, invokedBefore,
                    invoked, savedInvoked, savedUnit, resumeUnit, runSaved, resolution, calls,
                    lastCompleted, raised, failedAt, savesSinceUnit >>

\* json.dump completes and save_state returns; the difficulty loop goes on
SaveEnd ==
    /\ pc = "saving"
    /\ StateEncodable(CheckpointState)
    /\ store' = save_state_done(store, CheckpointState, Now)
    /\ lastWrite' = store'
    /\ runSaved' = Some([CheckpointState EXCEPT !.updated_at = Now])
    /\ savedInvoked' = invokedBefore \o invoked
    /\ savedUnit' = Some(<< page_idx, difficulty >>)
    /\ savesSinceUnit' = savesSinceUnit + 1
    /\ IF difficulty + 1 <= max_difficulty
       THEN /\ difficulty' = difficulty + 1
            /\ pc' = "unit"
            /\ UNCHANGED page_idx
       ELSE /\ page_idx' = page_idx + 1
            /\ pc' = "page"
            /\ UNCHANGED difficulty
    /\ UNCHANGED << inputs, run, runArgs, resume_state, all_qa_pairs, existing_questions,
                    total_qa_pairs, qa_pairs, outFile, result, invokedBefore, invoked,
                    resumeUnit, resolution, calls, lastCompleted, raised, failedAt >>

\* what save_state raises: OSError when open() or the write fails (no
\* permission, no space left, the directory gone), UnicodeEncodeError when
\* the text cannot be encoded
SaveExceptions == { "OSError", "UnicodeEncodeError" }

\* save_state can raise exc where the run is: an OSError at any time of the
\* call, the UnicodeEncodeError once the file is open and json.dump reaches
\* a text that is not encodable
SaveCanRaise(exc, p, st) ==
    exc = "UnicodeEncodeError" => (p = "saving" /\ ~StateEncodable(st))

\* save_state raises, before or after open() truncated the file: the page
\* loop's except clause catches the exception (next page) or lets it leave
\* the engine, and process_single_file returns 0
SaveRaise ==
    /\ pc \in { "save", "saving" }
    /\ HasManager
    /\ \E exc \in SaveExceptions :
         /\ SaveCanRaise(exc, pc, CheckpointState)
         /\ IF CaughtByPageLoop(exc)
            THEN /\ page_idx' = page_idx + 1
                 /\ pc' = "page"
                 /\ UNCHANGED << resume_state, all_qa_pairs, existing_questions,
                                 total_qa_pairs, difficulty, result, failedAt >>
            ELSE /\ pc' = "failed"
                 /\ result' = Some(0)
                 /\ failedAt' = "generate"
                 /\ EngineIdle
    /\ raised' = Some(<< page_idx, difficulty >>)
    /\ UNCHANGED << inputs, run, runArgs, qa_pairs, outFile, store, invokedBefore, invoked,
                    savedInvoked, savedUnit, resumeUnit, lastWrite, runSaved, resolution,
                    calls, lastCompleted, savesSinceUnit >>

\* ------------------------------------------- process_single_file, the rest
\* the progress file cleaned up before the output is written (a faulty variant)
Dedup_DeletesFirst ==
    /\ pc = "returned"
    /\ qa_pairs' = deduplicate_qa_pairs(all_qa_pairs)
    /\ store' = delete_state(store, OrchestratorKey(file_name))
    /\ pc' = "write"
    /\ UNCHANGED << inputs, run, runArgs, engine, outFile, result, invokedBefore,
                    invoked, savedInvoked, savedUnit, resumeUnit, lastWrite, runSaved,
                    resolution, calls, lastCompleted, raised, failedAt, savesSinceUnit >>

\* "Deduplicate"
Dedup ==
    /\ pc = "returned"
    /\ qa_pairs' = deduplicate_qa_pairs(all_qa_pairs)
    /\ pc' = "write"
    /\ UNCHANGED << inputs, run, runArgs, engine, outFile, result, store, invokedBefore,
                    invoked, savedInvoked, savedUnit, resumeUnit, lastWrite, runSaved,
                    resolution, calls, lastCompleted, raised, failedAt, savesSinceUnit >>

\* "Save QA pairs": save_as_jsonl opens the output file, which empties it;
\* without pairs it is closed at once
WriteOutput ==
    /\ pc = "write"
    /\ output' = Some(<< >>)
    /\ wrote' = TRUE
    /\ pc' = IF qa_pairs = << >> THEN "delete" ELSE "writing"
    /\ UNCHANGED << inputs, run, runArgs, engine, qa_pairs, result, store, invokedBefore,
                    invoked, savedInvoked, savedUnit, resumeUnit, lastWrite, runSaved,
                    resolution, calls, lastCompleted, raised, failedAt, savesSinceUnit >>

\* save_as_jsonl writes the line of the next pair; after the last one the
\* file is closed
WriteLine ==
    /\ pc = "writing"
    /\ LET k == Len(output[1]) + 1
       IN  /\ LinesEncodable(<< qa_pairs[k] >>)
           /\ output' = Some(Append(output[1], JsonLine(qa_pairs[k])))
           /\ UNCHANGED wrote
           /\ pc' = IF k = Len(qa_pairs) THEN "delete" ELSE "writing"
    /\ UNCHANGED << inputs, run, runArgs, engine, qa_pairs, result, store, invokedBefore,
                    invoked, savedInvoked, savedUnit, resumeUnit, lastWrite, runSaved,
                    resolution, calls, lastCompleted, raised, failedAt, savesSinceUnit >>

\* a failure handler that cleans the progress file up (a faulty variant)
FinalizeFail_DeletesCheckpoint ==
    /\ pc \in { "returned", "write", "writing", "delete" }
    /\ output' \in IF pc = "writing"
                   THEN { Some(o) : o \in CutOutputs(output[1],
                                                     SubSeq(qa_pairs, Len(output[1]) + 1,
                                                            Len(qa_pairs))) }
                   ELSE { output }
    /\ UNCHANGED wrote
    /\ store' = delete_state(store, OrchestratorKey(file_name))
    /\ pc' = "failed"
    /\ result' = Some(0)
    /\ failedAt' = "finalize"
    /\ EngineIdle
    /\ UNCHANGED << inputs, run, runArgs, qa_pairs, invokedBefore, invoked,
                    savedInvoked, savedUnit, resumeUnit, lastWrite, runSaved, resolution, calls,
                    lastCompleted, raised, savesSinceUnit >>

\* deduplication, save_as_jsonl or the last delete_state raises: "Unexpected
\* error", return 0; the progress file stays as it is, and so does the
\* output file unless save_as_jsonl raised with the file open, which leaves
\* the lines written so far or a text cut short
FinalizeFail ==
    /\ pc \in { "returned", "write", "writing", "delete" }
    /\ output' \in IF pc = "writing"
                   THEN { Some(o) : o \in CutOutputs(output[1],
                                                     SubSeq(qa_pairs, Len(output[1]) + 1,
                                                            Len(qa_pairs))) }
                   ELSE { output }
    /\ UNCHANGED wrote
    /\ pc' = "failed"
    /\ result' = Some(0)
    /\ failedAt' = "finalize"
    /\ EngineIdle
    /\ UNCHANGED << inputs, run, runArgs, qa_pairs, store, invokedBefore, invoked,
                    savedInvoked, savedUnit, resumeUnit, lastWrite, runSaved, resolution, calls,
                    lastCompleted, raised, savesSinceUnit >>

\* the pairs counted before the deduplication (a faulty variant)
DeleteCheckpoint_CountsAccumulated ==
    /\ pc = "delete"
    /\ store' = delete_state(store, OrchestratorKey(file_name))
    /\ result' = Some(Len(all_qa_pairs))
    /\ pc' = "done"
    /\ EngineIdle
    /\ UNCHANGED << inputs, run, runArgs, qa_pairs, outFile, invokedBefore, invoked,
                    savedInvoked, savedUnit, resumeUnit, lastWrite, runSaved, resolution,
                    calls, lastCompleted, raised, failedAt, savesSinceUnit >>

\* "Clean up progress file on successful completion", return len(qa_pairs)
DeleteCheckpoint ==
    /\ pc = "delete"
    /\ store' = delete_state(store, OrchestratorKey(file_name))
    /\ result' = Some(Len(qa_pairs))
    /\ pc' = "done"
    /\ EngineIdle
    /\ UNCHANGED << inputs, run, runArgs, qa_pairs, outFile, invokedBefore, invoked,
                    savedInvoked, savedUnit, resumeUnit, lastWrite, runSaved, resolution, calls,
                    lastCompleted, raised, failedAt, savesSinceUnit >>

\* the process is interrupted (Ctrl-C, kill, power loss): what is in memory
\* is gone, the files stay as they are; the markdown file holds what
\* write_text had written of its text, and the output file what reached it
\* of the lines save_as_jsonl has written: all of them after an exception,
\* fewer or a text cut inside a line when the process is killed
Crash ==
    /\ pc \in { "convert", "convert_ask", "converting", "md_writing", "load", "resume_ask",
                "engine", "page", "unit", "invoking", "save", "saving", "returned", "write",
                "writing", "delete" }
    /\ pages' \in IF pc = "md_writing" THEN PartialDocuments ELSE { pages }
    /\ output' \in IF pc = "writing"
                   THEN { Some(o) : o \in CutOutputs(output[1],
                                                     SubSeq(qa_pairs, Len(output[1]) + 1,
                                                            Len(qa_pairs))) }
                   ELSE { output }
    /\ UNCHANGED wrote
    /\ pc' = "crashed"
    /\ RunCleared
    /\ UNCHANGED << file_name, md_exists, capability, call, ret, batch,
                    run, runArgs, store, savedInvoked, savedUnit, runSaved >>

Next ==
    \/ StartRun
    \/ ConvertAsk
    \/ ConvertUse
    \/ ConvertBegin
    \/ ConvertOpen
    \/ Convert
    \/ ConvertFail
    \/ ResolveCheckpoint
    \/ ResolveAnswer
    \/ ResolveFail
    \/ EngineInit
    \/ EngineReadFail
    \/ PageStep
    \/ InvokeBegin
    \/ Invoke
    \/ SaveBegin
    \/ SaveEnd
    \/ SaveRaise
    \/ Dedup
    \/ WriteOutput
    \/ WriteLine
    \/ FinalizeFail
    \/ DeleteCheckpoint
    \/ Crash

Spec == Init /\ [][Next]_vars


\* ------------------------------------------------------------------- claims
IsPrefix(a, b) == Len(a) <= Len(b) /\ SubSeq(b, 1, Len(a)) = a

\* unit u comes before unit v in (page index, difficulty) order
Before(u, v) == u[1] < v[1] \/ (u[1] = v[1] /\ u[2] < v[2])

Count(seq, x) == Cardinality({ i \in 1..Len(seq) : seq[i] = x })

\* the engine is between its initialisation and its return
Generating == pc \in { "page", "unit", "invoking", "save", "saving", "returned" }

\* the units whose invocation is over, and the progress calls up to the last
\* of them: while generate_from_page is awaited the unit is invoked and
\* reported once, and nothing else of it has happened
UnitsOver == IF pc = "invoking" THEN SubSeq(invoked, 1, Len(invoked) - 1) ELSE invoked
CallsOver == IF pc = "invoking" THEN SubSeq(progress, 1, Len(progress) - 1) ELSE progress

\* the document's progress file
ProgressFile == get_progress_path(EngineKey(markdown_path))

\* C1: a run resumed from the checkpoint saved after unit (p, d) keeps the
\* checkpoint's pairs as a prefix of its accumulator up to and including the
\* sequence it returns, and every unit it invokes comes after (p, d) in
\* (page index, difficulty) order.
C1_ResumeRepeatsNothing ==
    (resume_state # None /\ Generating) =>
        /\ resumeUnit # None
        /\ IsPrefix(resume_state[1].generated_qa_pairs, all_qa_pairs)
        /\ \A i \in 1..Len(invoked) : Before(resumeUnit[1], invoked[i])

\* a resumed run has invoked units and returned, on top of restored pairs
C1_Witness ==
    /\ resume_state # None
    /\ pc = "returned"
    /\ invoked # << >>
    /\ resume_state[1].generated_qa_pairs # << >>
    /\ Len(all_qa_pairs) > Len(resume_state[1].generated_qa_pairs)

\* C3: the checkpoint of a completed save after unit (p, d) has the cursor
\* (p, d + 1) when d is below the saved max_difficulty and (p + 1, 1) when d
\* is the saved max_difficulty; its difficulty never exceeds max_difficulty.
C3_CursorRollover ==
    \A path \in DOMAIN store :
        store[path].full =>
            LET st == from_dict(store[path].data)
            IN  /\ savedUnit # None
                /\ st.current_difficulty <= st.max_difficulty
                /\ savedUnit[1][2] < st.max_difficulty =>
                       /\ st.current_page_idx = savedUnit[1][1]
                       /\ st.current_difficulty = savedUnit[1][2] + 1
                /\ savedUnit[1][2] = st.max_difficulty =>
                       /\ st.current_page_idx = savedUnit[1][1] + 1
                       /\ st.current_difficulty = 1

\* a checkpoint saved after the last difficulty of a page, with two levels
C3_Witness ==
    /\ ProgressFile \in DOMAIN store
    /\ store[ProgressFile].full
    /\ savedUnit # None
    /\ max_difficulty >= 2
    /\ savedUnit[1][2] = max_difficulty
    /\ from_dict(store[ProgressFile].data).current_page_idx = savedUnit[1][1] + 1

\* C4: once a unit has completed, the engine invokes the next unit, moves to
\* the next page or returns only after exactly one completed save_state, and
\* the checkpoint then holds every pair accepted so far with the cursor of
\* the unit after the completed one; before that save no save has been made
\* for the unit.
C4_OneSavePerUnit ==
    /\ pc = "save" => savesSinceUnit = 0
    /\ (lastCompleted # None /\ pc \in { "unit", "page", "returned" }) =>
        /\ savesSinceUnit = 1
        /\ load_state(store, EngineKey(markdown_path)) # None
        /\ LET st == load_state(store, EngineKey(markdown_path))[1]
               u == lastCompleted[1]
           IN  /\ st.generated_qa_pairs = all_qa_pairs
               /\ << st.current_page_idx, st.current_difficulty >> # u
               /\ Before(u, << st.current_page_idx, st.current_difficulty >>)
               /\ \A v \in (1..(Len(pages) + 1)) \X (1..max_difficulty) :
                      Before(u, v) /\ v[1] <= u[1] + 1 =>
                          ~Before(v, << st.current_page_idx, st.current_difficulty >>)

\* every segment of the document is a page with an integer header and a body
AllParse == \A i \in 1..Len(pages) : pages[i].body /\ IntParses(pages[i].hdr)

\* the units of the document in page-major order
GridUnits == [k \in 1..(Len(pages) * max_difficulty) |->
                << ((k - 1) \div max_difficulty) + 1, ((k - 1) % max_difficulty) + 1 >>]

\* the pairs a deterministic capability yields for a unit
PairsOfUnit(u) ==
    generate_from_page(PageOf(u[1]), u[2],
                       CHOOSE out \in OutcomesOf(capability, u) : TRUE).pairs

RECURSIVE PairsOfUnits(_)
PairsOfUnits(us) == IF us = << >> THEN << >> ELSE PairsOfUnit(Head(us)) \o PairsOfUnits(Tail(us))

\* C2: with a deterministic capability, a run resumed from the last saved
\* checkpoint returns what an uninterrupted run over all P x D units returns:
\* every unit has been invoked exactly once by the saved part of the
\* interrupted runs and the resumed run together, and the accumulated
\* sequence is the units' pairs in page-major order.
C2_ResumeEqualsUninterrupted ==
    (pc = "returned" /\ resume_state # None /\ Deterministic(capability) /\ AllParse) =>
        /\ \A k \in 1..Len(GridUnits) : Count(invokedBefore \o invoked, GridUnits[k]) = 1
        /\ all_qa_pairs = PairsOfUnits(GridUnits)

\* C5: an exception raised while a unit is generated ends the run: the unit
\* is the last one invoked, the engine does not return and the orchestrator
\* does not go on to write the output, and the run ends failed with 0 pairs.
C5_ExceptionAbortsRun ==
    raised # None =>
        /\ invoked # << >> => invoked[Len(invoked)] = raised[1]
        /\ pc \notin { "returned", "write", "writing", "delete", "done" }
        /\ pc = "failed" => result = Some(0)

\* C6: after an interruption of a run in which a save_state had completed,
\* load_state returns the state of the most recently completed save.
C6_InterruptKeepsLastSave ==
    (pc = "crashed" /\ runSaved # None) =>
        load_state(store, OrchestratorKey(file_name)) = runSaved

\* C7: when generation, deduplication or the output write fails, the
\* progress files are exactly what the run's last save_state call left (what
\* the run found at the start of generation when it saved nothing), and
\* process_single_file returns 0.
C7_FailureKeepsCheckpoint ==
    (pc = "failed" /\ failedAt \in { "resolve", "generate", "finalize" }) =>
        /\ store = lastWrite
        /\ result = Some(0)

\* the output write failed with a complete checkpoint on disk
C7_Witness ==
    /\ pc = "failed"
    /\ failedAt = "finalize"
    /\ ProgressFile \in DOMAIN store
    /\ store[ProgressFile].full
    /\ runSaved # None

\* C8: when process_single_file has completed successfully no progress file
\* of the document is left: the key the engine saved under is the key the
\* orchestrator deleted.
C8_SuccessLeavesNoCheckpoint ==
    pc = "done" =>
        /\ ProgressFile \notin DOMAIN store
        /\ EngineKey(markdown_path) = OrchestratorKey(file_name)

\* a resumed run that saved a checkpoint completed with pairs
C8_Witness ==
    /\ pc = "done"
    /\ resumeUnit # None
    /\ runSaved # None
    /\ result # Some(0)

\* C10: the loaded checkpoint is the resume state only if it matches the
\* current markdown path and max_difficulty, force_restart is off and the user
\* accepted; any other loaded checkpoint is deleted before generation starts,
\* and a run without resume state starts with empty accumulators and invokes
\* level 1 of the first page that parses as its first unit.
C10_ResumeOnlyWhenAccepted ==
    /\ (pc = "engine" /\ resume_state # None) =>
           /\ resume_state = loaded
           /\ loaded[1].markdown_path = StrOfPath(markdown_path)
           /\ loaded[1].max_difficulty = max_difficulty
           /\ ~force_restart
           /\ accepted
    /\ (pc = "engine" /\ loaded # None /\ resume_state = None) =>
           get_progress_path(OrchestratorKey(file_name)) \notin DOMAIN store
    /\ (pc = "page" /\ resume_state = None /\ invoked = << >>) =>
           /\ all_qa_pairs = << >>
           /\ existing_questions = << >>
           /\ total_qa_pairs = 0
    /\ (Generating /\ resume_state = None /\ invoked # << >>) =>
           /\ invoked[1][2] = 1
           /\ \A i \in 1..(invoked[1][1] - 1) : ~pages[i].body \/ ~IntParses(pages[i].hdr)

\* a checkpoint with pairs, written for another max_difficulty, was loaded
\* and is not resumed from
C10_Witness ==
    /\ pc = "engine"
    /\ loaded # None
    /\ resume_state = None
    /\ loaded[1].max_difficulty # max_difficulty
    /\ loaded[1].generated_qa_pairs # << >>

\* the page has a body after its header line and the header is an integer
Parseable(i) == pages[i].body /\ IntParses(pages[i].hdr)

\* the indices of the pages that are processed, in document order
ParseableIdx == SelectSeq([i \in 1..Len(pages) |-> i], Parseable)

\* the units of the given pages in page-major order, levels 1..maxd on each
UnitsOf(idxs, maxd) ==
    [k \in 1..(Len(idxs) * maxd) |->
        << idxs[((k - 1) \div maxd) + 1], ((k - 1) % maxd) + 1 >>]

\* the pairs accepted from a unit whose call returned
AcceptedOfUnit(u) ==
    generate_from_page(PageOf(u[1]), u[2],
                       CHOOSE out \in OutcomesOf(capability, u) : out.kind = "return").pairs

RECURSIVE AcceptedOfUnits(_)
AcceptedOfUnits(us) ==
    IF us = << >> THEN << >> ELSE AcceptedOfUnit(Head(us)) \o AcceptedOfUnits(Tail(us))

\* C12: a fresh run in which no unit raised has, when the engine returns,
\* invoked every unit of the parseable pages exactly once, in page-major
\* order with the levels 1..max_difficulty on each page, and returns the
\* units' accepted pairs concatenated in that order.
C12_FreshRunCoversGrid ==
    (pc = "returned" /\ resume_state = None /\ raised = None) =>
        /\ invoked = UnitsOf(ParseableIdx, max_difficulty)
        /\ Len(invoked) = Len(ParseableIdx) * max_difficulty
        /\ all_qa_pairs = AcceptedOfUnits(invoked)

\* two parseable pages at two levels: four calls, four pairs
C12_Witness ==
    /\ pc = "returned"
    /\ resume_state = None
    /\ raised = None
    /\ Len(ParseableIdx) = 2
    /\ max_difficulty = 2
    /\ Len(invoked) = 4
    /\ Len(all_qa_pairs) = 4

\* C15: once the output is written it holds one line per pair of the
\* deduplicated accumulated sequence, in order, each line an object with
\* exactly the keys question, answer and context and the pair's values; the
\* accumulated sequence of a resumed run starts with the checkpoint's pairs.
C15_OutputLines ==
    /\ pc = "delete" =>
           /\ qa_pairs = deduplicate_qa_pairs(all_qa_pairs)
           /\ resume_state # None =>
                  IsPrefix(resume_state[1].generated_qa_pairs, all_qa_pairs)
    /\ pc \in { "delete", "done" } =>
           /\ output # None
           /\ Len(output[1]) = Len(qa_pairs)
           /\ \A i \in 1..Len(qa_pairs) :
                  /\ DOMAIN output[1][i] = QAKeys
                  /\ \A k \in QAKeys : output[1][i][k] = qa_pairs[i][k]

\* a resumed run wrote its output, a duplicate question dropped
C15_Witness ==
    /\ pc = "delete"
    /\ resume_state # None
    /\ resume_state[1].generated_qa_pairs # << >>
    /\ Len(qa_pairs) < Len(all_qa_pairs)
    /\ Len(output[1]) >= 1

\* the saves of a run follow one another with current_page_idx not below
\* that of the save before
SavedPageSteps ==
    (runSaved # None /\ runSaved' # None) =>
        runSaved'[1].current_page_idx >= runSaved[1].current_page_idx

\* the saves of a resumed run are not below the checkpoint's current_page_idx
SavedPageFromResume ==
    (Generating /\ resume_state # None /\ runSaved # None) =>
        runSaved[1].current_page_idx >= resume_state[1].current_page_idx

\* C20: current_page_idx never decreases from one save of a run to the next,
\* nor from the resume checkpoint to any save of the run resumed from it.
C20_PageIndexMonotone == []SavedPageFromResume /\ [][SavedPageSteps]_vars

\* a resumed run saved a checkpoint on a later page than the one it resumed at
C20_Witness ==
    /\ Generating
    /\ resume_state # None
    /\ runSaved # None
    /\ runSaved[1].current_page_idx > resume_state[1].current_page_idx

\* the saves of a run follow one another, each with the pairs of the save
\* before it as a prefix of its own
SavedPairsSteps ==
    (runSaved # None /\ runSaved' # None) =>
        IsPrefix(runSaved[1].generated_qa_pairs, runSaved'[1].generated_qa_pairs)

\* the saves of a resumed run start with the checkpoint's pairs
SavedPairsFromResume ==
    (Generating /\ resume_state # None /\ runSaved # None) =>
        IsPrefix(resume_state[1].generated_qa_pairs, runSaved[1].generated_qa_pairs)

\* C21: the saved generated_qa_pairs only grows: every save of a run has the
\* pairs of the save before it as a prefix, and every save of a resumed run
\* has the pairs of the resume checkpoint as a prefix, so that no pair is
\* removed, reordered or edited during generation.
C21_SavedPairsGrow == []SavedPairsFromResume /\ [][SavedPairsSteps]_vars

\* a resumed run has saved twice, each time with one more pair than before
C21_Witness ==
    /\ Generating
    /\ resume_state # None
    /\ resume_state[1].generated_qa_pairs # << >>
    /\ runSaved # None
    /\ Len(invoked) >= 2
    /\ Len(runSaved[1].generated_qa_pairs) >= Len(resume_state[1].generated_qa_pairs) + 2

\* every question of the list is the trimmed, lower-cased question of the
\* pair at its position
NormalisedQuestionsOf(questions, pairs) ==
    /\ Len(questions) = Len(pairs)
    /\ \A i \in 1..Len(questions) : questions[i] = Strip(Lower(pairs[i].question))

\* C22: every question the engine has added to its seen-questions list, in
\* the run and in the checkpoint it saved, is the trimmed, case-folded form
\* of the question of the accepted pair it was added for.
C22_SeenQuestionsNormalised ==
    /\ Generating => NormalisedQuestionsOf(existing_questions, all_qa_pairs)
    /\ runSaved # None =>
           NormalisedQuestionsOf(runSaved[1].existing_questions,
                                 runSaved[1].generated_qa_pairs)

\* the questions of the pairs, in order
QuestionsOf(pairs) == [i \in 1..Len(pairs) |-> pairs[i].question]

\* the pairs the run started from
RestoredPairs == IF resume_state # None THEN resume_state[1].generated_qa_pairs ELSE << >>

\* the units this run invoked before its last invocation
EarlierUnits == SubSeq(invoked, 1, Len(invoked) - 1)

\* C23: the avoid-list an invocation hands to the client is the questions of
\* the pairs restored from the resume checkpoint followed by the questions
\* of the pairs accepted in the earlier units of the run, in order, and
\* nothing of the unit invoked or of a later one.
C23_AvoidListIsAcceptedSoFar ==
    (Generating /\ avoid # None) =>
        avoid[1] = QuestionsOf(RestoredPairs \o AcceptedOfUnits(EarlierUnits))

\* the second invocation of a resumed run received the restored question
\* and the one accepted in the run's first unit
C23_Witness ==
    /\ Generating
    /\ avoid # None
    /\ resume_state # None
    /\ resume_state[1].generated_qa_pairs # << >>
    /\ Len(invoked) >= 2
    /\ Len(avoid[1]) > Len(resume_state[1].generated_qa_pairs)
    /\ Len(all_qa_pairs) > Len(avoid[1])

\* the invocation at position i of invoked is the run's first on its page
FirstOnPage(i) == i = 1 \/ invoked[i - 1][1] # invoked[i][1]

\* the run is at its resume page and the checkpoint's cursor is at level d
ResumesAt(idx, d) ==
    /\ resume_state # None
    /\ resume_state[1].current_page_idx = idx
    /\ resume_state[1].current_difficulty = d

\* C24: a segment without a body after its first line, or whose first line
\* is no integer, is skipped without failing the document: no unit is
\* invoked and the run writes no checkpoint for it, generation fails only when
\* the markdown file could not be read (before any unit), a unit raised or a
\* save failed, the first unit invoked on any page is
\* level 1 (the resume level on the resume page), and the segment keeps its
\* position: every saved total_pages counts all segments and every unit is
\* invoked under the position of its page among all segments.
C24_UnparsablePageSkipped ==
    /\ \A i \in 1..Len(invoked) :
           /\ invoked[i][1] \in 1..Len(pages)
           /\ pages[invoked[i][1]].body
           /\ IntParses(pages[invoked[i][1]].hdr)
    /\ (runSaved # None /\ savedUnit # None) =>
           pages[savedUnit[1][1]].body /\ IntParses(pages[savedUnit[1][1]].hdr)
    /\ (pc = "failed" /\ failedAt = "generate") =>
           \/ invoked = << >> /\ progress = << >> /\ runSaved = None
           \/ raised # None
           \/ lastCompleted # None /\ savesSinceUnit = 0
    /\ Generating =>
           \A i \in 1..Len(invoked) :
               FirstOnPage(i) =>
                   \/ invoked[i][2] = 1 /\ ~\E d \in 2..max_difficulty : ResumesAt(invoked[i][1], d)
                   \/ ResumesAt(invoked[i][1], invoked[i][2])
    /\ runSaved # None => runSaved[1].total_pages = Len(pages)

\* a fresh run on a document whose first segment has no integer header: the
\* second segment was processed as page 2 from level 1, and the run returned
C24_Witness ==
    /\ pc = "returned"
    /\ resume_state = None
    /\ raised = None
    /\ Len(pages) = 2
    /\ ~IntParses(pages[1].hdr)
    /\ max_difficulty = 2
    /\ invoked = << << 2, 1 >>, << 2, 2 >> >>
    /\ runSaved # None
    /\ runSaved[1].total_pages = 2
    /\ runSaved[1].current_page_idx = 3

\* the last unit completed and save_state has not completed for it, the
\* engine being past the save: the save failed
SaveFailed == lastCompleted # None /\ savesSinceUnit = 0 /\ pc \notin { "save", "saving" }

\* C26: when save_state fails the exception leaves generate_from_markdown:
\* the unit whose save failed is the last one invoked, the engine neither
\* goes on nor returns, and process_single_file reports the document as
\* failed with 0 pairs.
C26_SaveFailurePropagates ==
    SaveFailed =>
        /\ pc = "failed"
        /\ failedAt = "generate"
        /\ result = Some(0)
        /\ invoked[Len(invoked)] = lastCompleted[1]

\* C29: every checkpoint a run saved has 1 <= current_difficulty <=
\* max_difficulty + 1 and 1 <= current_page_idx <= total_pages + 1, with
\* current_page_idx = total_pages + 1 only when the save followed the last
\* level of the last page, and total_pages the number of segments of the
\* document, the same in every save.
C29_SavedCursorInRange ==
    runSaved # None =>
        LET st == runSaved[1]
        IN  /\ 1 <= st.current_difficulty
            /\ st.current_difficulty <= st.max_difficulty + 1
            /\ 1 <= st.current_page_idx
            /\ st.current_page_idx <= st.total_pages + 1
            /\ st.current_page_idx = st.total_pages + 1 =>
                   savedUnit = Some(<< Len(pages), st.max_difficulty >>)
            /\ st.total_pages = Len(pages)

\* the save after level 2 of the second of two pages: the cursor is past
\* the last page
C29_Witness ==
    /\ runSaved # None
    /\ runSaved[1].total_pages = 2
    /\ runSaved[1].max_difficulty = 2
    /\ runSaved[1].current_page_idx = 3
    /\ runSaved[1].current_difficulty = 1
    /\ savedUnit = Some(<< 2, 2 >>)

\* the call of generate_from_page for the unit can return, can raise
MayReturn(u) ==
    \E out \in OutcomesOf(capability, u) : generate_from_page(PageOf(u[1]), u[2], out).ok
MayRaise(u) ==
    \E out \in OutcomesOf(capability, u) : ~generate_from_page(PageOf(u[1]), u[2], out).ok

RECURSIVE Reported(_, _, _)
\* the calls cs are what the units us report from the count n on: every unit
\* one call with the count so far and its level and, when its invocation
\* returned, one more with the count raised by its accepted pairs
Reported(cs, us, n) ==
    IF us = << >> THEN cs = << >>
    ELSE LET u == Head(us)
             m == n + Len(AcceptedOfUnit(u))
         IN  /\ cs # << >>
             /\ cs[1] = [current_qa |-> n, difficulty_level |-> u[2]]
             /\ \/ /\ MayReturn(u)
                   /\ Len(cs) >= 2
                   /\ cs[2] = [current_qa |-> m, difficulty_level |-> u[2]]
                   /\ Reported(SubSeq(cs, 3, Len(cs)), Tail(us), m)
                \/ /\ MayRaise(u)
                   /\ Reported(Tail(cs), Tail(us), n)

\* C30 as stated: the callback is called exactly twice for every unit
\* whose invocation is over, both times with the unit's level, with counts
\* that do not decrease.
C30_TwoCallsPerUnit ==
    /\ Len(CallsOver) = 2 * Len(UnitsOver)
    /\ \A k \in 1..Len(UnitsOver) :
           /\ progress[2 * k - 1].difficulty_level = invoked[k][2]
           /\ progress[2 * k].difficulty_level = invoked[k][2]
           /\ progress[2 * k - 1].current_qa <= progress[2 * k].current_qa

\* C30, amended: every unit invoked is reported once before its invocation,
\* with its level and the number of pairs accumulated so far, and once
\* more after it, with the number including its accepted pairs, exactly
\* when the invocation returned; a unit whose invocation raised is reported
\* once, and so is the unit whose invocation is under way. The counts
\* never decrease, and the first count of a resumed run is the size of the
\* restored accumulator.
C30_ProgressCalls ==
    /\ (Generating \/ pc = "failed") =>
           /\ Len(invoked) <= Len(progress)
           /\ Len(progress) <= 2 * Len(invoked)
           /\ CallsOver # << >> => Reported(CallsOver, UnitsOver, progress[1].current_qa)
           /\ pc = "invoking" =>
                  progress[Len(progress)] =
                      [current_qa |-> Len(all_qa_pairs),
                       difficulty_level |-> invoked[Len(invoked)][2]]
           /\ \A i, j \in 1..Len(progress) :
                  i < j => progress[i].current_qa <= progress[j].current_qa
    /\ (Generating /\ progress # << >>) =>
           /\ progress[1].current_qa = Len(RestoredPairs)
           /\ progress[Len(progress)].current_qa <= Len(all_qa_pairs)
    /\ (Generating /\ lastCompleted # None /\ invoked[Len(invoked)] = lastCompleted[1]) =>
           progress[Len(progress)].current_qa = Len(all_qa_pairs)

\* a resumed run reported its first unit from the restored count on, and a
\* later unit raised after its first report
C30_Witness ==
    /\ Generating
    /\ resume_state # None
    /\ Len(RestoredPairs) > 0
    /\ Len(invoked) = 2
    /\ Len(progress) = 3
    /\ progress[1].current_qa = Len(RestoredPairs)
    /\ progress[2].current_qa = Len(RestoredPairs) + 1
    /\ progress[3].current_qa = progress[2].current_qa

\* a step removes the document's progress file
RemovesCheckpoint == ProgressFile \in DOMAIN store /\ ProgressFile \notin DOMAIN store'

\* the steps of the success path after generation, and their failure
Finalizing == pc \in { "returned", "write", "writing", "delete" } \/ (pc = "failed" /\ failedAt = "finalize")

ResumedPastLastPage ==
    /\ Generating \/ pc \in { "write", "writing", "delete" }
    /\ resume_state # None
    /\ resume_state[1].current_page_idx > Len(pages)

\* C33: a run resumed from a checkpoint whose cursor is past the last page
\* invokes no unit, reports no progress, saves nothing and leaves the
\* progress files alone; its accumulator, and the sequence it returns, is the
\* checkpoint's pairs, and what it finalizes is their deduplication. Once it
\* is done the output holds those pairs and nothing was invoked.
C33_ResumePastLastPage ==
    /\ ResumedPastLastPage =>
           /\ pc \in { "page", "returned", "write", "writing", "delete" }
           /\ invoked = << >>
           /\ progress = << >>
           /\ runSaved = None
           /\ store = lastWrite
           /\ load_state(store, OrchestratorKey(file_name)) = resume_state
           /\ all_qa_pairs = resume_state[1].generated_qa_pairs
           /\ pc \in { "write", "writing", "delete" } =>
                  qa_pairs = deduplicate_qa_pairs(resume_state[1].generated_qa_pairs)
    /\ (pc = "done" /\ resumeUnit = Some(<< Len(pages), max_difficulty >>)) =>
           /\ invoked = << >>
           /\ runSaved = None
           /\ output = Some(JsonLines(qa_pairs))
           /\ result = Some(Len(qa_pairs))

\* the second run resumed after the last unit of the first, whose output
\* write had failed, and completed with the pairs of the first
C33_Witness ==
    /\ pc = "done"
    /\ run = 2
    /\ max_difficulty = 2
    /\ resumeUnit = Some(<< Len(pages), max_difficulty >>)
    /\ invoked = << >>
    /\ savedInvoked # << >>
    /\ qa_pairs # << >>
    /\ result = Some(Len(qa_pairs))

\* the questions of a state are the questions of its pairs, one for one
Aligned(st) ==
    /\ Len(st.existing_questions) = Len(st.generated_qa_pairs)
    /\ \A i \in 1..Len(st.generated_qa_pairs) :
           st.existing_questions[i] = st.generated_qa_pairs[i].question

\* C34: in the state of every completed save of a fresh run, and of a
\* resumed run whose resume state has it so, existing_questions is as long
\* as generated_qa_pairs and its i-th entry is the question of the i-th
\* pair; so it is in every complete progress file, and in the engine's two
\* lists when a save is about to write them.
C34_QuestionsAlignedWithPairs ==
    /\ (runSaved # None /\ (resume_state = None \/ Aligned(resume_state[1]))) =>
           Aligned(runSaved[1])
    /\ \A p \in DOMAIN store :
           (store[p].full /\ ~from_dict_raises(store[p].data)) =>
               Aligned(from_dict(store[p].data))
    /\ (pc \in { "save", "saving" } /\ (resume_state = None \/ Aligned(resume_state[1]))) =>
           Aligned([generated_qa_pairs |-> all_qa_pairs,
                    existing_questions |-> existing_questions])

\* a resumed run saved a state with more pairs than it had restored
C34_Witness ==
    /\ Generating
    /\ resume_state # None
    /\ resume_state[1].generated_qa_pairs # << >>
    /\ Aligned(resume_state[1])
    /\ runSaved # None
    /\ Len(runSaved[1].generated_qa_pairs) > Len(resume_state[1].generated_qa_pairs)
    /\ runSaved[1].existing_questions[Len(runSaved[1].existing_questions)] = QuestionFor(2)

\* the segment of a page whose content is empty, and of one that is blank
EmptyPage == SegmentOf(ConverterSegment(<< "7" >>, << >>, TRUE))
BlankPage == SegmentOf(ConverterSegment(<< "7" >>, << " ", "\n" >>, TRUE))

\* the page is one with an integer header and nothing after it
HeaderOnly(i) == IntParses(pages[i].hdr) /\ ~pages[i].body

\* C37: the segment the converter writes for a page without content has an
\* integer header and no body, and a page that is such a segment is skipped:
\* no unit is invoked for it, no save of the run follows one, the accumulator holds the
\* restored pairs and the pairs of the units invoked, all on other pages;
\* the page counts in every saved total_pages, and a fresh run that returns
\* without an exception has invoked every page with a body and an integer
\* header under that page's own position among all segments.
C37_HeaderOnlyPageSkipped ==
    /\ IntParses(EmptyPage.hdr) /\ ~EmptyPage.body
    /\ BlankPage = EmptyPage
    /\ \A i \in 1..Len(pages) :
           HeaderOnly(i) =>
               /\ \A k \in 1..Len(invoked) : invoked[k][1] # i
               /\ (runSaved # None /\ savedUnit # None) => savedUnit[1][1] # i
               /\ lastCompleted # None => lastCompleted[1][1] # i
    /\ Generating => all_qa_pairs = RestoredPairs \o AcceptedOfUnits(UnitsOver)
    /\ runSaved # None => runSaved[1].total_pages = Len(pages)
    /\ (pc = "returned" /\ resume_state = None /\ raised = None) =>
           \A i \in 1..Len(pages) :
               (\E k \in 1..Len(invoked) : invoked[k][1] = i) <=> Parseable(i)

\* a fresh run on a document whose first page has no content: the second
\* page was processed as page 2, and the saved state counts two pages
C37_Witness ==
    /\ pc = "returned"
    /\ resume_state = None
    /\ raised = None
    /\ Len(pages) = 2
    /\ pages[1] = EmptyPage
    /\ pages[2].body
    /\ max_difficulty = 1
    /\ invoked = << << 2, 1 >> >>
    /\ Len(all_qa_pairs) = 1
    /\ runSaved # None
    /\ runSaved[1].total_pages = 2

\* ------------------------------------------------- validate_state on its own
\* the markdown paths of the documents under the spellings of --data-dir
MarkdownPaths == { MarkdownPathOf(dir, name) : dir \in DataDirs, name \in FileNames }

\* a checkpoint as the engine writes it for a markdown path and a max_difficulty
StateFor(mdpath, maxd) ==
    [file_stem |-> EngineKey(mdpath), markdown_path |-> StrOfPath(mdpath),
     max_difficulty |-> maxd, current_page_idx |-> 1, current_difficulty |-> 1,
     total_pages |-> 1, generated_qa_pairs |-> << >>, existing_questions |-> << >>,
     created_at |-> 1, updated_at |-> 1]

ValidateCalls ==
    { [fn |-> "validate_state", state |-> StateFor(sp, sd), markdown_path |-> mp,
       max_difficulty |-> md, exists |-> ex] :
        sp \in MarkdownPaths, sd \in 1..(MaxDiff + 1), mp \in MarkdownPaths,
        md \in 1..(MaxDiff + 1), ex \in BOOLEAN }

InitValidate ==
    /\ file_name = << "a", ".", "p", "d", "f" >>
    /\ md_exists = TRUE
    /\ pages = << [hdr |-> << "7" >>, body |-> TRUE] >>
    /\ capability = "steady"
    /\ Idle
    /\ call \in { Some(c) : c \in ValidateCalls }
    /\ ret = None

ApplyValidate ==
    /\ call # None
    /\ call[1].fn = "validate_state"
    /\ ret = None
    /\ ret' = Some(validate_state(call[1].state, call[1].markdown_path,
                                  call[1].max_difficulty, call[1].exists))
    /\ UNCHANGED << file_name, mdFile, capability, call, run, runArgs, pc, engine, qa_pairs,
                    outFile, result, store, invokedBefore, invoked, savedInvoked, savedUnit,
                    resumeUnit, lastWrite, runSaved, resolution, calls, lastCompleted, raised,
                    failedAt, savesSinceUnit, batch >>

NextValidate == ApplyValidate

SpecValidate == InitValidate /\ [][NextValidate]_vars

\* C9: validate_state returns true exactly when the state's markdown_path is
\* the current path, the state's max_difficulty is the requested one and the
\* file exists.
C9_ValidateIff ==
    ret # None =>
        (ret[1] <=> /\ call[1].state.markdown_path = StrOfPath(call[1].markdown_path)
                    /\ call[1].state.max_difficulty = call[1].max_difficulty
                    /\ call[1].exists)

\* max_difficulty 3 against a requested 2 is rejected on the same, existing path
C9_Witness ==
    /\ ret = Some(FALSE)
    /\ call[1].state.markdown_path = StrOfPath(call[1].markdown_path)
    /\ call[1].exists
    /\ call[1].state.max_difficulty = 3
    /\ call[1].max_difficulty = 2

\* -------------------------------------------- the progress manager on its own
\* operations applied in a row to a progress directory
MaxOps == 2

\* the keys of the documents
StoreKeys == { Stem(name) : name \in FileNames }

\* the pair generate_from_page builds from a complete candidate
PairOf(q, d, mdpath) ==
    QAPair(FullCand(q), d, StrOfPath(mdpath), 7)

\* the state the engine hands to save_state after the first n units of the
\* first page of a document, one pair accepted per unit
SaveState(mdpath, maxd, n) ==
    [file_stem |-> EngineKey(mdpath), markdown_path |-> StrOfPath(mdpath),
     max_difficulty |-> maxd,
     current_page_idx |-> NextCursor(1, n, maxd)[1],
     current_difficulty |-> NextCursor(1, n, maxd)[2], total_pages |-> 1,
     generated_qa_pairs |-> [i \in 1..n |-> PairOf(QuestionFor(i), i, mdpath)],
     existing_questions |-> [i \in 1..n |-> QuestionFor(i)],
     created_at |-> 0, updated_at |-> 0]

SaveStates ==
    { SaveState(MarkdownPathOf(<< "d" >>, name), maxd, n) :
        name \in FileNames, maxd \in 1..MaxDiff, n \in 1..MaxDiff }

\* the same states at every time a save may have stamped them with
StampedStates ==
    { [st EXCEPT !.updated_at = t] : st \in SaveStates, t \in 0..(MaxOps + 1) }

\* the JSON object without one of its keys
WithoutKey(d, k) == [x \in DOMAIN d \ { k } |-> d[x]]

\* keys that a damaged file lacks or holds null for
DamagedKeys == { "file_stem", "max_difficulty", "generated_qa_pairs", "updated_at" }

\* the dictionaries an edited file may hold for a state and that validate as
\* it: an int as a string of its digits, of its digits and ".0" or of its
\* digits and white space, as a float without a fractional part or as true,
\* a pair with a key QAPair ignores, a pair whose page_num is such a string
LaxDicts(st) ==
    LET d == to_dict(st)
        qa == d["generated_qa_pairs"].s[1]
    IN  { [d EXCEPT !["max_difficulty"] = JStr(<< "1" >>)],
          [d EXCEPT !["max_difficulty"] = JStr(<< "1", ".", "0" >>)],
          [d EXCEPT !["max_difficulty"] = JStr(<< "1", "U+000B" >>)],
          [d EXCEPT !["max_difficulty"] = JFloat(Chars("10e-1"))],
          [d EXCEPT !["max_difficulty"] = JBool(TRUE)],
          [d EXCEPT !["generated_qa_pairs"] =
                        JList(<< JObj(qa.s @@ ("extra" :> JStr(<< "x" >>))) >>)],
          [d EXCEPT !["generated_qa_pairs"] =
                        JList(<< JObj([qa.s EXCEPT !["page_num"] =
                                          JStr(<< "0" >> \o @.s \o << ".", "0", "0" >>)]) >>)] }

\* the state without its pairs
WithoutPairs(st) == [st EXCEPT !.generated_qa_pairs = << >>]

\* the dictionaries of a state whose generated_qa_pairs an edit has replaced
\* by an empty object or an empty string: they validate as the state without
\* its pairs
EmptiedDicts(st) ==
    LET d == to_dict(st)
    IN  { [d EXCEPT !["generated_qa_pairs"] = JObj(<< >>)],
          [d EXCEPT !["generated_qa_pairs"] = JStr(<< >>)] }

\* dictionaries that do not validate: a pair without its context, a number
\* among the questions, a text for the pairs, and for an int a decimal that
\* is no integer, digits with a point and nothing after it, a float with a
\* fractional part, a float beyond 2**63 and NaN
IllTypedDicts(st) ==
    LET d == to_dict(st)
        qa == d["generated_qa_pairs"].s[1]
    IN  { [d EXCEPT !["generated_qa_pairs"] = JList(<< JObj(WithoutKey(qa.s, "context")) >>)],
          [d EXCEPT !["existing_questions"] = JList(<< JInt(1) >>)],
          [d EXCEPT !["generated_qa_pairs"] = JStr([i \in 1..(MaxDiff + 2) |-> "x"])],
          [d EXCEPT !["max_difficulty"] = JStr(<< "1", ".", "5" >>)],
          [d EXCEPT !["max_difficulty"] = JStr(<< "1", "." >>)],
          [d EXCEPT !["max_difficulty"] = JFloat(Chars("1.5"))],
          [d EXCEPT !["max_difficulty"] = JFloat(Chars("1e19"))],
          [d EXCEPT !["max_difficulty"] = JFloat(Chars("NaN"))] }

\* the state with one pair and max_difficulty 1 saved for the key
OnePairState(key) ==
    CHOOSE x \in SaveStates :
        x.file_stem = key /\ x.max_difficulty = 1 /\ Len(x.generated_qa_pairs) = 1

\* what a progress file of a key may hold before the operations: a complete
\* checkpoint, the beginning of one, an edited checkpoint that validates, or
\* valid JSON that is no checkpoint (a key missing, null for a value, a time
\* that is no ISO text, an empty object, an ill-typed element)
FileContents(key) ==
    LET st == OnePairState(key)
        d == to_dict(st)
    IN  { [data |-> d, full |-> TRUE], [data |-> d, full |-> FALSE],
          [data |-> << >>, full |-> TRUE],
          [data |-> [d EXCEPT !["created_at"] = JStr(<< "x" >>)], full |-> TRUE] }
        \cup { [data |-> x, full |-> TRUE] :
                   x \in LaxDicts(st) \cup EmptiedDicts(st) \cup IllTypedDicts(st) }
        \cup { [data |-> WithoutKey(d, k), full |-> TRUE] : k \in DamagedKeys }
        \cup { [data |-> [d EXCEPT ![k] = JNull], full |-> TRUE] : k \in DamagedKeys }

\* the progress directories the operations start from
InitialStores ==
    UNION { { [p \in { get_progress_path(k) : k \in ks } |->
                 f[CHOOSE k \in ks : get_progress_path(k) = p]] :
              f \in { g \in [ks -> UNION { FileContents(k) : k \in ks }] :
                         \A k \in ks : g[k] \in FileContents(k) } } :
            ks \in SUBSET StoreKeys }

InitStore ==
    /\ file_name = << "a", ".", "p", "d", "f" >>
    /\ md_exists = TRUE
    /\ pages = << [hdr |-> << "7" >>, body |-> TRUE] >>
    /\ capability = "steady"
    /\ IdleRun
    /\ store \in InitialStores
    /\ call = None
    /\ ret = None

\* what an operation leaves alone
storeFrame == << file_name, mdFile, capability, runArgs, pc, engine, qa_pairs, outFile,
                result, invokedBefore, invoked, savedInvoked, savedUnit, resumeUnit,
                lastWrite, runSaved, resolution, calls, lastCompleted, raised, failedAt,
                savesSinceUnit, batch >>

\* progress_manager.load_state(file_stem)
StoreLoad ==
    /\ run < MaxOps
    /\ \E k \in StoreKeys :
         /\ call' = Some([fn |-> "load_state", file_stem |-> k, state |-> None,
                          before |-> store])
         /\ ret' = Some(load_state(store, k))
    /\ run' = run + 1
    /\ UNCHANGED << store, storeFrame >>

\* progress_manager.save_state(state), uninterrupted, at the time run + 1
StoreSave ==
    /\ run < MaxOps
    /\ \E st \in SaveStates :
         /\ call' = Some([fn |-> "save_state", file_stem |-> st.file_stem,
                          state |-> Some(st), before |-> store])
         /\ store' = save_state_done(store, st, run + 1)
    /\ ret' = Some(None)
    /\ run' = run + 1
    /\ UNCHANGED storeFrame

\* progress_manager.delete_state(file_stem)
StoreDelete ==
    /\ run < MaxOps
    /\ \E k \in StoreKeys :
         /\ call' = Some([fn |-> "delete_state", file_stem |-> k, state |-> None,
                          before |-> store])
         /\ store' = delete_state(store, k)
    /\ ret' = Some(None)
    /\ run' = run + 1
    /\ UNCHANGED storeFrame

NextStore == StoreLoad \/ StoreSave \/ StoreDelete

SpecStore == InitStore /\ [][NextStore]_vars

\* the last operation applied and the directory it was applied to
LastOp == call[1]
Applied(fn) == call # None /\ call[1].fn = fn

\* the dictionary is what to_dict gives for the state, or an edited one that
\* validates as the state
DictFor(st) ==
    { to_dict(st) }
        \cup (IF Len(st.generated_qa_pairs) = 1 /\ st.max_difficulty = 1
              THEN LaxDicts(st) ELSE {})
        \cup (IF st.generated_qa_pairs = << >> THEN EmptiedDicts(st) ELSE {})

\* the states a progress file may hold: those a save has written, and those
\* an edit has emptied of their pairs
FileStates == StampedStates \cup { WithoutPairs(st) : st \in StampedStates }

\* the file is the complete JSON text of some state
HoldsState(content) ==
    content.full /\ \E st \in FileStates : content.data \in DictFor(st)

\* C11: load_state returns None exactly when the key has no progress file or
\* the file is not the complete JSON text of a generation state; otherwise
\* it returns the state the file serialises. It changes no file, and with
\* None the orchestrator resumes from nothing, whatever the options and the
\* user's answer.
C11_LoadAbsentOrUnparsable ==
    Applied("load_state") =>
        LET files == LastOp.before
            path == get_progress_path(LastOp.file_stem)
            got == ret[1]
        IN  /\ store = files
            /\ (got = None) <=> (path \notin DOMAIN files \/ ~HoldsState(files[path]))
            /\ got # None => got[1] \in FileStates /\ files[path].data \in DictFor(got[1])
            /\ got = None =>
                   \A maxd \in 1..MaxDiff, force \in BOOLEAN, response \in UserResponses :
                       ~Resumes(got, MarkdownPathOf(<< "d" >>, file_name), maxd, force, response)

\* a complete JSON object that is a checkpoint but for its max_difficulty,
\* the text "1.", was loaded as None
C11_Witness ==
    /\ Applied("load_state")
    /\ ret = Some(None)
    /\ get_progress_path(LastOp.file_stem) \in DOMAIN LastOp.before
    /\ LET c == LastOp.before[get_progress_path(LastOp.file_stem)]
       IN  /\ c.full
           /\ StateKeys \subseteq DOMAIN c.data
           /\ c.data["max_difficulty"] = JStr(<< "1", "." >>)

\* C18: after save_state(s), load_state(s.file_stem) returns s in every field
\* other than updated_at, the key's file is the complete text of that state
\* and nothing else, and the files of other keys are as they were.
C18_SaveThenLoad ==
    Applied("save_state") =>
        LET s == LastOp.state[1]
            path == get_progress_path(s.file_stem)
            got == load_state(store, s.file_stem)
        IN  /\ got # None
            /\ [got[1] EXCEPT !.updated_at = s.updated_at] = s
            /\ store[path] = [data |-> to_dict(got[1]), full |-> TRUE]
            /\ DOMAIN store = DOMAIN LastOp.before \cup { path }
            /\ \A p \in DOMAIN store \ { path } : store[p] = LastOp.before[p]

\* a state with two pairs was saved over a complete checkpoint with one pair
C18_Witness ==
    /\ Applied("save_state")
    /\ Len(LastOp.state[1].generated_qa_pairs) = 2
    /\ get_progress_path(LastOp.file_stem) \in DOMAIN LastOp.before
    /\ load_state(LastOp.before, LastOp.file_stem) # None
    /\ Len(load_state(LastOp.before, LastOp.file_stem)[1].generated_qa_pairs) = 1
    /\ Len(load_state(store, LastOp.file_stem)[1].generated_qa_pairs) = 2

\* C19: delete_state(k) removes the file of k and no other file, is a no-op
\* when k has no file, leaves load_state(k) absent, and applied once more it
\* changes nothing.
C19_DeleteIdempotent ==
    Applied("delete_state") =>
        LET path == get_progress_path(LastOp.file_stem)
        IN  /\ DOMAIN store = DOMAIN LastOp.before \ { path }
            /\ \A p \in DOMAIN store : store[p] = LastOp.before[p]
            /\ path \notin DOMAIN LastOp.before => store = LastOp.before
            /\ load_state(store, LastOp.file_stem) = None
            /\ delete_state(store, LastOp.file_stem) = store

\* delete_state was applied a second time to the same key, next to the file
\* of another key
C19_Witness ==
    /\ Applied("delete_state")
    /\ run = 2
    /\ get_progress_path(LastOp.file_stem) \notin DOMAIN LastOp.before
    /\ store = LastOp.before
    /\ store # NoFiles

\* ------------------------------------------- deduplicate_qa_pairs on its own
\* the longest list of pairs deduplicated
MaxLen == 4

\* questions that differ by case and blanks only, and another question
DedupQuestions == { << "Q", "1" >>, << "q", "1", " " >>, << "Q", "2" >> }
DedupAnswers == { << "A" >>, << "B" >> }

DedupPairs ==
    { [question |-> q, answer |-> a, context |-> a, difficulty |-> 1,
       source_file |-> << "d/processed/a.md" >>, page_num |-> 7] :
        q \in DedupQuestions, a \in DedupAnswers }

DedupCalls ==
    { [fn |-> "deduplicate_qa_pairs", qa_pairs |-> ps] :
        ps \in UNION { [1..n -> DedupPairs] : n \in 0..MaxLen } }

InitDedup ==
    /\ file_name = << "a", ".", "p", "d", "f" >>
    /\ md_exists = TRUE
    /\ pages = << [hdr |-> << "7" >>, body |-> TRUE] >>
    /\ capability = "steady"
    /\ Idle
    /\ call \in { Some(c) : c \in DedupCalls }
    /\ ret = None

\* refinement.deduplicate_qa_pairs(qa_pairs)
ApplyDedup ==
    /\ call # None
    /\ call[1].fn = "deduplicate_qa_pairs"
    /\ ret = None
    /\ ret' = Some(deduplicate_qa_pairs(call[1].qa_pairs))
    /\ UNCHANGED << call, run, store, storeFrame >>

NextDedup == ApplyDedup

SpecDedup == InitDedup /\ [][NextDedup]_vars

\* the question without the blanks at its ends
Trimmed(q) ==
    LET inked == { i \in 1..Len(q) : q[i] # " " }
    IN  IF inked = {} THEN << >>
        ELSE SubSeq(q, CHOOSE i \in inked : \A j \in inked : i <= j,
                       CHOOSE i \in inked : \A j \in inked : j <= i)

\* the two characters are one letter in either case, or the same character
SameLetter(c, e) == c = e \/ { c, e } \in { { "Q", "q" }, { "A", "a" } }

\* the questions have the same key: trimmed, they differ by case at most
SameKey(p, q) ==
    /\ Len(Trimmed(p)) = Len(Trimmed(q))
    /\ \A i \in 1..Len(Trimmed(p)) : SameLetter(Trimmed(p)[i], Trimmed(q)[i])

\* the positions whose question key occurs at no earlier position
FirstOccurrences(ps) ==
    { i \in 1..Len(ps) :
        \A j \in 1..(i - 1) : ~SameKey(ps[j].question, ps[i].question) }

\* the elements of ps at the positions of I, in order
AtPositions(ps, I) ==
    [k \in 1..Cardinality(I) |->
        ps[CHOOSE i \in I : Cardinality({ j \in I : j <= i }) = k]]

\* C13: deduplicate_qa_pairs returns the pairs at the first occurrence of
\* each question key, in input order: of the pairs sharing a key only the
\* first is kept, whatever the answers and contexts of the later ones.
C13_FirstOccurrenceWins ==
    (call # None /\ call[1].fn = "deduplicate_qa_pairs" /\ ret # None) =>
        ret[1] = AtPositions(call[1].qa_pairs, FirstOccurrences(call[1].qa_pairs))

\* the questions Q1, Q1, 'q1 ', Q2, the second Q1 with another answer: the
\* first Q1 and Q2 are kept
C13_Witness ==
    /\ call # None
    /\ call[1].fn = "deduplicate_qa_pairs"
    /\ ret # None
    /\ Len(call[1].qa_pairs) = 4
    /\ [i \in 1..4 |-> call[1].qa_pairs[i].question] =
           << << "Q", "1" >>, << "Q", "1" >>, << "q", "1", " " >>, << "Q", "2" >> >>
    /\ call[1].qa_pairs[1].answer # call[1].qa_pairs[2].answer
    /\ ret[1] = << call[1].qa_pairs[1], call[1].qa_pairs[4] >>

\* ------------------------------ deduplicate_qa_pairs applied to its own result
\* what the engine's list of questions holds while the pairs are deduplicated
EngineQuestions == { << >>, << << "q", "1" >>, << "q", "2" >> >> }

\* the calls: the list passed, its elements when the call was made, and the
\* list the first call was made on once its result has been passed again
TwiceCalls ==
    { [fn |-> "deduplicate_qa_pairs", qa_pairs |-> ps, before |-> ps, first_input |-> None] :
        ps \in UNION { [1..n -> DedupPairs] : n \in 0..MaxLen } }

InitTwice ==
    /\ file_name = << "a", ".", "p", "d", "f" >>
    /\ md_exists = TRUE
    /\ pages = << [hdr |-> << "7" >>, body |-> TRUE] >>
    /\ capability = "steady"
    /\ store = NoFiles
    /\ files_to_process = << >>
    /\ file_idx = 0
    /\ attempted = << >>
    /\ outcomes = << >>
    /\ batch_total = 0
    /\ written = << >>
    /\ avoid = None
    /\ progress = << >>
    /\ run = 0
    /\ data_dir = << "d" >>
    /\ max_difficulty = 1
    /\ force_restart = FALSE
    /\ pc = "idle"
    /\ resume_state = None
    /\ all_qa_pairs = << >>
    /\ existing_questions \in EngineQuestions
    /\ total_qa_pairs = 0
    /\ page_idx = 0
    /\ difficulty = 0
    /\ qa_pairs = << >>
    /\ output = None
    /\ wrote = FALSE
    /\ result = None
    /\ invokedBefore = << >>
    /\ invoked = << >>
    /\ savedInvoked = << >>
    /\ savedUnit = None
    /\ resumeUnit = None
    /\ lastWrite = NoFiles
    /\ runSaved = None
    /\ loaded = None
    /\ accepted = FALSE
    /\ lastCompleted = None
    /\ raised = None
    /\ failedAt = "-"
    /\ savesSinceUnit = 0
    /\ call \in { Some(c) : c \in TwiceCalls }
    /\ ret = None

\* a deduplication that starts from the engine's questions (a faulty variant)
DedupOnce_SeenByEngine ==
    /\ call # None
    /\ call[1].fn = "deduplicate_qa_pairs"
    /\ ret = None
    /\ ret' = Some(DedupFrom(call[1].qa_pairs,
                              { Strip(Lower(existing_questions[i])) :
                                    i \in 1..Len(existing_questions) }))
    /\ UNCHANGED << call, run, store, storeFrame >>

\* refinement.deduplicate_qa_pairs(qa_pairs): the list passed is only
\* iterated, the set and the list the function fills are its own
DedupOnce ==
    /\ call # None
    /\ call[1].fn = "deduplicate_qa_pairs"
    /\ ret = None
    /\ ret' = Some(deduplicate_qa_pairs(call[1].qa_pairs))
    /\ UNCHANGED << call, run, store, storeFrame >>

\* refinement.deduplicate_qa_pairs(result): the call on what the first call
\* returned
DedupResult ==
    /\ call # None
    /\ call[1].fn = "deduplicate_qa_pairs"
    /\ call[1].first_input = None
    /\ ret # None
    /\ call' = Some([call[1] EXCEPT !.qa_pairs = ret[1], !.before = ret[1],
                                     !.first_input = Some(call[1].qa_pairs)])
    /\ ret' = Some(deduplicate_qa_pairs(ret[1]))
    /\ UNCHANGED << run, store, storeFrame >>

NextTwice == DedupOnce \/ DedupResult

SpecTwice == InitTwice /\ [][NextTwice]_vars

\* no two of the pairs have the same question key
DistinctKeys(ps) ==
    \A i \in 1..Len(ps) : \A j \in (i + 1)..Len(ps) :
        ~SameKey(ps[i].question, ps[j].question)

\* C38: once deduplicate_qa_pairs has returned, the list it was passed holds
\* what it held at the call, no two pairs of the result have the same
\* question key, the result is the pairs of the input at the first
\* occurrences of their keys whatever the engine's list of questions holds,
\* and the call on a result returns that result; no step changes the
\* engine's list of questions.
C38_DedupIdempotentAndPure ==
    /\ [](ret # None =>
             /\ call[1].qa_pairs = call[1].before
             /\ DistinctKeys(ret[1])
             /\ ret[1] = AtPositions(call[1].qa_pairs, FirstOccurrences(call[1].qa_pairs))
             /\ call[1].first_input # None => ret[1] = call[1].qa_pairs)
    /\ [][existing_questions' = existing_questions]_vars

\* Q1, 'q1 ' and Q2 were deduplicated to Q1 and Q2 while the engine's list
\* held the keys of both, and the call on that result returned it
C38_Witness ==
    /\ call # None
    /\ call[1].fn = "deduplicate_qa_pairs"
    /\ call[1].first_input # None
    /\ ret # None
    /\ existing_questions # << >>
    /\ Len(call[1].first_input[1]) = 3
    /\ [i \in 1..3 |-> call[1].first_input[1][i].question] =
           << << "Q", "1" >>, << "q", "1", " " >>, << "Q", "2" >> >>
    /\ Len(call[1].qa_pairs) = 2
    /\ ret[1] = call[1].qa_pairs

\* ---------------------------------------------- generate_from_page on its own
\* the most candidates one call returns
MaxItems == 3

\* the candidates a call may return: complete ones, one with a question
\* only, an empty object, and one with null for the context
Candidates ==
    { FullCand(<< "Q", "1" >>), FullCand(<< "Q", "2" >>), QuestionOnlyCand(<< "Q", "1" >>),
      << >>, NullContextCand(<< "Q", "1" >>) }

PageCalls ==
    { [fn |-> "generate_from_page", items |-> items, difficulty |-> d,
       page |-> [page_num |-> 7, source_file |-> << "d/processed/a.md" >>]] :
        items \in UNION { [1..n -> Candidates] : n \in 0..MaxItems }, d \in 1..MaxDiff }

InitPage ==
    /\ file_name = << "a", ".", "p", "d", "f" >>
    /\ md_exists = TRUE
    /\ pages = << [hdr |-> << "7" >>, body |-> TRUE] >>
    /\ capability = "steady"
    /\ Idle
    /\ call \in { Some(c) : c \in PageCalls }
    /\ ret = None

\* generator.generate_from_page(page, difficulty, ...), the capability
\* returning the candidates
ApplyPage ==
    /\ call # None
    /\ call[1].fn = "generate_from_page"
    /\ ret = None
    /\ ret' = Some(generate_from_page(call[1].page, call[1].difficulty,
                                      Returns(call[1].items)))
    /\ UNCHANGED << call, run, store, storeFrame >>

NextPage == ApplyPage

SpecPage == InitPage /\ [][NextPage]_vars

\* the candidates that carry question, answer and context
Carrying(items) ==
    SelectSeq(items, LAMBDA item : { "question", "answer", "context" } \subseteq DOMAIN item)

\* C14: generate_from_page does not fail the unit and returns one pair for
\* each candidate that carries question, answer and context, in the order
\* returned, with the candidate's three values, the unit's difficulty and the
\* page's number; every other candidate is dropped.
C14_CompleteCandidatesOnly ==
    (call # None /\ call[1].fn = "generate_from_page" /\ ret # None) =>
        LET want == Carrying(call[1].items)
            got == ret[1]
        IN  /\ got.ok
            /\ Len(got.pairs) = Len(want)
            /\ \A i \in 1..Len(want) :
                   /\ got.pairs[i].question = want[i]["question"].s
                   /\ got.pairs[i].answer = want[i]["answer"].s
                   /\ got.pairs[i].context = want[i]["context"].s
                   /\ got.pairs[i].difficulty = call[1].difficulty
                   /\ got.pairs[i].page_num = call[1].page.page_num

\* ------------------------------------------------------------- process_files
\* the documents under the input directory: two of the same name in
\* different directories, and one with two dots in its name
InputFiles ==
    { [dir |-> << "x" >>, name |-> << "a", ".", "p", "d", "f" >>],
      [dir |-> << "y" >>, name |-> << "a", ".", "p", "d", "f" >>],
      [dir |-> << "x" >>, name |-> << "a", ".", "b", ".", "p", "d", "f" >>] }

\* the order of the characters of the names
AtomRank(c) ==
    CASE c = "." -> 1 [] c = "a" -> 2 [] c = "b" -> 3 [] c = "d" -> 4 [] c = "f" -> 5
      [] c = "p" -> 6 [] c = "x" -> 7 [] c = "y" -> 8 [] OTHER -> 9

\* str < str
RECURSIVE StrLess(_, _)
StrLess(a, b) ==
    IF b = << >> THEN FALSE
    ELSE IF a = << >> THEN TRUE
    ELSE IF Head(a) # Head(b) THEN AtomRank(Head(a)) < AtomRank(Head(b))
    ELSE StrLess(Tail(a), Tail(b))

\* Path < Path: the parts compared in turn
PathLess(f, g) == StrLess(f.dir, g.dir) \/ (f.dir = g.dir /\ StrLess(f.name, g.name))

\* sorted(files)
RECURSIVE Sorted(_)
Sorted(fs) ==
    IF fs = {} THEN << >>
    ELSE LET least == CHOOSE f \in fs : \A g \in fs \ { f } : PathLess(f, g)
         IN  << least >> \o Sorted(fs \ { least })

\* FileHandler.get_files_to_process on a directory holding the files found
get_files_to_process(found) == Sorted(found)

\* the loop ended by a failed document (a faulty variant)
LoopContinues_UntilFailure(p, idx, fs) == idx < Len(fs) /\ p # "failed"

\* "for file_path in files": there is a next document, however the one
\* before it ended
LoopContinues(p, idx, fs) == idx < Len(fs)

\* the capabilities a batch is run with: one that returns or raises at
\* every call, one whose text makes save_state and save_as_jsonl raise
BatchCapabilities == { "flaky", "garbled" }

\* the markdown of the document at hand; every conversion writes it anew
InitBatch ==
    /\ file_name = << "a", ".", "p", "d", "f" >>
    /\ MarkdownFound
    /\ capability \in BatchCapabilities
    /\ Idle
    /\ call = None
    /\ ret = None

\* process_files up to its loop: the options of the command, the documents
\* found; without documents it returns
BatchBegin ==
    /\ pc = "idle"
    /\ max_difficulty' \in 1..MaxDiff
    /\ force_restart' \in BOOLEAN
    /\ \E found \in SUBSET InputFiles :
         /\ files_to_process' = get_files_to_process(found)
         /\ pc' = IF found = {} THEN "batch_done" ELSE "batch"
    /\ UNCHANGED << file_name, mdFile, capability, call, ret, file_idx, attempted, outcomes,
                    batch_total, written, run, data_dir, engine, qa_pairs, outFile, result, store, invokedBefore,
                    invoked, savedInvoked, savedUnit, resumeUnit, lastWrite, runSaved,
                    resolution, calls, lastCompleted, raised, failedAt, savesSinceUnit >>

\* the lines the save_as_jsonl of the call that just returned left in the
\* output file: all of them, or those written whole before it raised
LinesLeft ==
    IF wrote THEN Cardinality({ i \in 1..Len(output[1]) : IsWholeLine(output[1][i]) }) ELSE 0

\* the document taken next has the markdown and the output file of the one
\* before it when their stems are the same
SameStemNext == file_idx > 0 /\ Stem(files_to_process[file_idx + 1].name) = Stem(file_name)

\* the next call started without the one before it awaited (a faulty variant)
BatchNext_NotAwaited ==
    /\ pc \in { "batch", "done", "failed", "unit", "saving" }
    /\ LoopContinues(pc, file_idx, files_to_process)
    /\ file_idx' = file_idx + 1
    /\ file_name' = files_to_process[file_idx + 1].name
    /\ attempted' = Append(attempted, files_to_process[file_idx + 1])
    /\ outcomes' = IF pc \in { "done", "failed" } THEN Append(outcomes, pc) ELSE outcomes
    /\ batch_total' = IF pc \in { "done", "failed" } THEN batch_total + result[1]
                      ELSE batch_total
    /\ written' = IF pc \in { "done", "failed" } THEN Append(written, LinesLeft) ELSE written
    /\ output' = IF SameStemNext THEN output ELSE None
    /\ wrote' = FALSE
    /\ md_exists' = IF SameStemNext \/ file_idx = 0 THEN md_exists ELSE FALSE
    /\ pages' = IF SameStemNext \/ file_idx = 0 THEN pages ELSE << >>
    /\ run' = run + 1
    /\ pc' = "convert"
    /\ RunCleared
    /\ runSaved' = None
    /\ UNCHANGED << capability, call, ret, files_to_process, runArgs, store,
                    savedInvoked, savedUnit >>

\* the loop takes the next document and calls process_single_file for it,
\* the count the call before it returned added to the total;
\* output is the output file of its stem, which only the document just
\* before it can have written, and so is the markdown file, which a
\* document with a stem of its own does not find
BatchNext ==
    /\ pc \in { "batch", "done", "failed" }
    /\ LoopContinues(pc, file_idx, files_to_process)
    /\ file_idx' = file_idx + 1
    /\ file_name' = files_to_process[file_idx + 1].name
    /\ attempted' = Append(attempted, files_to_process[file_idx + 1])
    /\ outcomes' = IF pc = "batch" THEN outcomes ELSE Append(outcomes, pc)
    /\ batch_total' = IF pc = "batch" THEN batch_total ELSE batch_total + result[1]
    /\ written' = IF pc = "batch" THEN written ELSE Append(written, LinesLeft)
    /\ output' = IF SameStemNext THEN output ELSE None
    /\ wrote' = FALSE
    /\ md_exists' = IF SameStemNext \/ file_idx = 0 THEN md_exists ELSE FALSE
    /\ pages' = IF SameStemNext \/ file_idx = 0 THEN pages ELSE << >>
    /\ run' = run + 1
    /\ pc' = "convert"
    /\ RunCleared
    /\ runSaved' = None
    /\ UNCHANGED << capability, call, ret, files_to_process, runArgs, store,
                    savedInvoked, savedUnit >>

\* the loop is over: "Total QA pairs generated"
BatchEnd ==
    /\ pc \in { "done", "failed" }
    /\ ~LoopContinues(pc, file_idx, files_to_process)
    /\ outcomes' = Append(outcomes, pc)
    /\ batch_total' = batch_total + result[1]
    /\ written' = Append(written, LinesLeft)
    /\ pc' = "batch_done"
    /\ UNCHANGED << file_name, mdFile, capability, call, ret, files_to_process, file_idx,
                    attempted, run, runArgs, engine, qa_pairs, outFile, result, store,
                    invokedBefore, invoked, savedInvoked, savedUnit, resumeUnit, lastWrite,
                    runSaved, resolution, calls, lastCompleted, raised, failedAt, savesSinceUnit >>

NextBatch ==
    \/ BatchBegin
    \/ BatchNext
    \/ BatchEnd
    \/ ConvertAsk
    \/ ConvertUse
    \/ ConvertBegin
    \/ ConvertOpen
    \/ Convert
    \/ ConvertFail
    \/ ResolveCheckpoint
    \/ ResolveAnswer
    \/ ResolveFail
    \/ EngineInit
    \/ EngineReadFail
    \/ PageStep
    \/ InvokeBegin
    \/ Invoke
    \/ SaveBegin
    \/ SaveEnd
    \/ SaveRaise
    \/ Dedup
    \/ WriteOutput
    \/ WriteLine
    \/ FinalizeFail
    \/ DeleteCheckpoint
    \/ Crash

SpecBatch == InitBatch /\ [][NextBatch]_vars

\* C16: the documents found are taken in sorted order, each one once,
\* whatever the documents before it did, and when process_files is over
\* process_single_file has been called for every one of them.
C16_BatchAttemptsAll ==
    /\ attempted = SubSeq(files_to_process, 1, file_idx)
    /\ \A i, j \in 1..Len(files_to_process) :
           i < j => PathLess(files_to_process[i], files_to_process[j])
    /\ Len(outcomes) <= Len(attempted)
    /\ pc = "batch_done" =>
           /\ attempted = files_to_process
           /\ Len(outcomes) = Len(files_to_process)

\* three documents, the first two failed, the third was still processed
C16_Witness ==
    /\ pc = "batch_done"
    /\ Len(files_to_process) = 3
    /\ outcomes = << "failed", "failed", "done" >>

\* the document whose run wrote a checkpoint: the clock of a batch is the
\* number of the document
WrittenFor(st) == attempted[st.updated_at]

\* C17: the checkpoint a document's run loads, validates, resumes from or
\* deletes is one that the run of the same input document wrote.
C17_CheckpointsPerDocument ==
    /\ (pc = "engine" /\ loaded # None) =>
           WrittenFor(loaded[1]) = files_to_process[file_idx]
    /\ (Generating /\ resume_state # None) =>
           WrittenFor(resume_state[1]) = files_to_process[file_idx]

\* a call of process_single_file has not returned yet
InCall == pc \in { "convert", "convert_ask", "converting", "md_writing", "load", "resume_ask", "engine",
                   "page", "unit", "invoking", "save", "saving", "returned", "write",
                   "writing", "delete" }

\* C25: the batch does one thing at a time. Every document attempted before
\* the current one has returned, so that at most one call of
\* process_single_file is open; within it a unit is invoked, a page taken or
\* the engine left only once the one save_state call of the unit before has
\* ended, with the whole text in the progress file or with an exception;
\* and a progress file that a call reads or deletes is incomplete only when
\* a save that raised left it so, never because a save is still writing it.
C25_OneUnitAtATime ==
    /\ Len(attempted) = file_idx
    /\ InCall => Len(outcomes) = Len(attempted) - 1
    /\ ~InCall => Len(outcomes) \in { Len(attempted) - 1, Len(attempted) }
    /\ (lastCompleted # None /\ pc \in { "unit", "page", "returned" }) =>
           \/ savesSinceUnit = 1 /\ store[ProgressFile].full
           \/ savesSinceUnit = 0 /\ raised = lastCompleted
    /\ savesSinceUnit <= 1
    /\ pc \in { "load", "engine", "unit", "delete" } =>
           \A path \in DOMAIN store :
               ~store[path].full =>
                   \/ \E i \in 1..Len(outcomes) : outcomes[i] = "failed"
                   \/ raised # None

\* the second document of a batch is between two units, the first unit's
\* save complete, after the first document has returned
C25_Witness ==
    /\ pc = "unit"
    /\ Len(attempted) = 2
    /\ Len(outcomes) = 1
    /\ lastCompleted # None
    /\ savesSinceUnit = 1
    /\ store[ProgressFile].full

RECURSIVE SumSeq(_)
SumSeq(ns) == IF ns = << >> THEN 0 ELSE Head(ns) + SumSeq(Tail(ns))

\* what each finished call counts for: the lines it wrote when it succeeded,
\* 0 when it failed
Contributions == [i \in 1..Len(outcomes) |-> IF outcomes[i] = "done" THEN written[i] ELSE 0]

\* C27: the total of process_files is the sum, over the documents whose call
\* has returned, of the number of lines the call wrote to the output file
\* when it succeeded and of 0 when it failed, whatever a failed call left
\* in its output file; at the end every document of the batch is counted.
C27_BatchTotalIsSumOfWritten ==
    /\ Len(written) = Len(outcomes)
    /\ batch_total = SumSeq(Contributions)
    /\ pc = "batch_done" => Len(written) = Len(files_to_process)
    /\ pc = "done" => result = Some(Len(output[1]))
    /\ pc = "failed" => result = Some(0)

\* a batch of three is over: the first document wrote fewer lines than it
\* had accumulated pairs, the second failed with lines left in its output
\* file, the third wrote its lines
C27_Witness ==
    /\ pc = "batch_done"
    /\ outcomes = << "done", "failed", "done" >>
    /\ written[1] > 0
    /\ written[1] < max_difficulty * Len(pages)
    /\ written[2] > 0
    /\ written[3] > 0
    /\ batch_total = written[1] + written[3]

\* ---------------------------------------- dresokb2.quality_control_filter
\* the longest list of items filtered
MaxQAItems == 3

\* what agent.run does for an item: an assessment that the question does not
\* contain its answer, one that it does, or an exception
AgentOutcomes == { "clear", "contains", "error" }

\* items of which two have the same question and answer
QAItems ==
    { [question |-> q, answer |-> << "A" >>, citation |-> c, difficulty |-> 1] :
        q \in { << "Q", "1" >>, << "Q", "2" >> }, c \in { << "A" >> } }

\* batch_size as given by the callers (the default) and smaller ones
BatchSizes == { 1, 2, 10 }

QualityCalls ==
    { [fn |-> "quality_control_filter", qa_items |-> items, outcomes |-> os,
       difficulty_level |-> 1, batch_size |-> bs] :
        items \in UNION { [1..n -> QAItems] : n \in 0..MaxQAItems },
        os \in UNION { [1..n -> AgentOutcomes] : n \in 0..MaxQAItems },
        bs \in BatchSizes }

\* an item whose assessment raised is dropped (a faulty variant)
KeepsItem_OnlyAssessed(outcome) == outcome = "clear"

\* the try block of one item: appended unless the assessment returned with
\* question_contains_answer, and appended when agent.run raised
KeepsItem(outcome) == outcome # "contains"

RECURSIVE AssessBatch(_, _)
\* "for item in batch": the items appended to filtered_items, the outcomes
\* being those of the batch's calls of agent.run in order
AssessBatch(items, os) ==
    IF items = << >> THEN << >>
    ELSE (IF KeepsItem(Head(os)) THEN << Head(items) >> ELSE << >>)
         \o AssessBatch(Tail(items), Tail(os))

Min(a, b) == IF a <= b THEN a ELSE b

RECURSIVE FilterFrom(_, _, _, _)
\* "for i in range(0, len(qa_items), batch_size)" from the 0-based index i on
FilterFrom(items, os, i, batch_size) ==
    IF i >= Len(items) THEN [filtered |-> << >>, asked |-> << >>]
    ELSE LET hi == Min(i + batch_size, Len(items))
             rest == FilterFrom(items, os, i + batch_size, batch_size)
         IN  [filtered |-> AssessBatch(SubSeq(items, i + 1, hi), SubSeq(os, i + 1, hi))
                            \o rest.filtered,
              asked |-> SubSeq(items, i + 1, hi) \o rest.asked]

\* quality_control_filter: what it returns and the items it called agent.run
\* for, in order; os[k] is what the k-th call of agent.run does
quality_control_filter(items, os, batch_size) ==
    IF items = << >> THEN [filtered |-> items, asked |-> << >>]
    ELSE FilterFrom(items, os, 0, batch_size)

InitQuality ==
    /\ file_name = << "a", ".", "p", "d", "f" >>
    /\ md_exists = TRUE
    /\ pages = << [hdr |-> << "7" >>, body |-> TRUE] >>
    /\ capability = "steady"
    /\ Idle
    /\ call \in { Some(c) : c \in { q \in QualityCalls : Len(q.outcomes) = Len(q.qa_items) } }
    /\ ret = None

\* quality_control_filter(qa_items, client, difficulty_level, batch_size)
ApplyQuality ==
    /\ call # None
    /\ call[1].fn = "quality_control_filter"
    /\ ret = None
    /\ ret' = Some(quality_control_filter(call[1].qa_items, call[1].outcomes,
                                          call[1].batch_size))
    /\ UNCHANGED << call, run, store, storeFrame >>

NextQuality == ApplyQuality

SpecQuality == InitQuality /\ [][NextQuality]_vars

\* C28: quality_control_filter returns the items, in input order, whose
\* assessment did not report that the question contains its answer: every
\* item whose assessment reported it is removed, every item whose assessment
\* raised is kept, each item is assessed once, and for an empty input no
\* assessment is made.
C28_FilterKeepsOrderAndErrors ==
    (call # None /\ call[1].fn = "quality_control_filter" /\ ret # None) =>
        LET items == call[1].qa_items
            os == call[1].outcomes
            keep == { i \in 1..Len(items) : os[i] \in { "clear", "error" } }
        IN  /\ ret[1].filtered = AtPositions(items, keep)
            /\ Len(ret[1].filtered) = Len(items) - Cardinality({ i \in 1..Len(items) : os[i] = "contains" })
            /\ ret[1].asked = items
            /\ items = << >> => ret[1].asked = << >> /\ ret[1].filtered = << >>

\* three items, one batch of two and one of one: the first assessment
\* raised, the second reported the answer in the question, the third did not
C28_Witness ==
    /\ call # None
    /\ call[1].fn = "quality_control_filter"
    /\ ret # None
    /\ call[1].batch_size = 2
    /\ call[1].outcomes = << "error", "contains", "clear" >>
    /\ ret[1].filtered = << call[1].qa_items[1], call[1].qa_items[3] >>

\* ------------------------------------------- an interrupted save_state
\* the text of a progress file, character by character
Quote == "\""
Backslash == "\\"

\* the code points below 0x20 that TLA+ cannot write
ControlAtoms ==
    { "U+0000", "U+0001", "U+0002", "U+0003", "U+0004", "U+0005", "U+0006", "U+0007",
      "U+0008", "U+000B", "U+000E", "U+000F", "U+0010", "U+0011", "U+0012", "U+0013",
      "U+0014", "U+0015", "U+0016", "U+0017", "U+0018", "U+0019", "U+001A", "U+001B",
      "U+001C", "U+001D", "U+001E", "U+001F" }

\* a character below 0x20, which a JSON string holds as an escape only
IsControl(c) == c \in { "\t", "\n", "\f", "\r" } \cup ControlAtoms

\* a hexadecimal digit as the encoder writes it
LowerHex(c) ==
    CASE c = "A" -> "a" [] c = "B" -> "b" [] c = "C" -> "c" [] c = "D" -> "d"
      [] c = "E" -> "e" [] c = "F" -> "f" [] OTHER -> c

\* json.encoder.ESCAPE_DCT with ensure_ascii=False: the quote, the backslash
\* and the characters below 0x20 are escaped, every other one is written
\* as it is
EscapeChar(c) ==
    CASE c = Quote -> << Backslash, Quote >>
      [] c = Backslash -> << Backslash, Backslash >>
      [] c = "\n" -> << Backslash, "n" >>
      [] c = "\r" -> << Backslash, "r" >>
      [] c = "\t" -> << Backslash, "t" >>
      [] c = "\f" -> << Backslash, "f" >>
      [] c = "U+0008" -> << Backslash, "b" >>
      [] c \in ControlAtoms \ { "U+0008" } ->
            << Backslash, "u", "0", "0", SubSeq(c, 5, 5), LowerHex(SubSeq(c, 6, 6)) >>
      [] OTHER -> << c >>

RECURSIVE Concat(_)
\* "".join(texts)
Concat(texts) == IF texts = << >> THEN << >> ELSE Head(texts) \o Concat(Tail(texts))

\* json.dump of a string, of a number
DumpStr(str) ==
    << Quote >> \o Concat([i \in 1..Len(str) |-> EscapeChar(str[i])]) \o << Quote >>
DumpInt(n) == IntText(n)

\* with indent=2 every item starts on a line of its own, two blanks in for
\* each level
NewlineIndent(level) == << "\n" >> \o [i \in 1..(2 * level) |-> " "]

RECURSIVE Joined(_, _)
\* the texts of the items with the separator between any two
Joined(texts, sep) ==
    IF texts = << >> THEN << >>
    ELSE IF Len(texts) = 1 THEN texts[1]
    ELSE texts[1] \o sep \o Joined(Tail(texts), sep)

\* an array or an object at a level: "[]" or "{}" when it is empty, else the
\* items one under the other and the closing bracket on its own line
DumpItems(open, texts, close, level) ==
    IF texts = << >> THEN << open, close >>
    ELSE << open >> \o NewlineIndent(level + 1)
         \o Joined(texts, << "," >> \o NewlineIndent(level + 1))
         \o NewlineIndent(level) \o << close >>

\* a member of an object: the key separator of indent=2 is ": "
DumpMember(k, text) == DumpStr(Chars(k)) \o << ":", " " >> \o text

\* the keys of a pair in the order model_dump gives them
PairKeyOrder == << "question", "answer", "context", "difficulty", "source_file", "page_num" >>

\* json.dump of qa.model_dump(), an element of the array of level 1
DumpPair(qa) ==
    DumpItems("{",
              [i \in 1..Len(PairKeyOrder) |->
                 LET k == PairKeyOrder[i]
                 IN  DumpMember(k, IF qa.s[k].t = "int" THEN DumpInt(IntValue(qa.s[k]))
                                   ELSE DumpStr(qa.s[k].s))],
              "}", 2)

\* the keys of a state in the order to_dict gives them
StateKeyOrder == << "file_stem", "markdown_path", "max_difficulty", "current_page_idx",
                    "current_difficulty", "total_pages", "generated_qa_pairs",
                    "existing_questions", "created_at", "updated_at" >>

\* json.dump of one value of state.to_dict()
DumpField(k, v) ==
    CASE v.t = "str" -> DumpStr(v.s)
      [] v.t = "int" -> DumpInt(IntValue(v))
      [] k = "generated_qa_pairs" ->
            DumpItems("[", [i \in 1..Len(v.s) |-> DumpPair(v.s[i])], "]", 1)
      [] OTHER ->
            DumpItems("[", [i \in 1..Len(v.s) |-> DumpStr(v.s[i].s)], "]", 1)

\* json.dump(state.to_dict(), f, indent=2, ensure_ascii=False): the whole text
json_dump(d) ==
    DumpItems("{",
              [i \in 1..Len(StateKeyOrder) |->
                 DumpMember(StateKeyOrder[i], DumpField(StateKeyOrder[i], d[StateKeyOrder[i]]))],
              "}", 0)

\* the decoder's results: a value and the place after it, or
\* json.JSONDecodeError
Decoded(val, pos) == [ok |-> TRUE, val |-> val, pos |-> pos]
DecodeError == [ok |-> FALSE, val |-> JNull, pos |-> 0]

\* a decoder that takes a value the text ends in for complete (a faulty variant)
Unterminated_Closed(val, pos) == Decoded(val, pos)

\* the text ends inside a string, an array or an object: JSONDecodeError
Unterminated(val, pos) == DecodeError

\* json.decoder.WHITESPACE
JsonWhitespace == { " ", "\t", "\n", "\r" }

RECURSIVE SkipWhitespace(_, _)
\* the place of the first character from i on that is no white space
SkipWhitespace(text, i) ==
    IF i <= Len(text) /\ text[i] \in JsonWhitespace THEN SkipWhitespace(text, i + 1) ELSE i

\* the characters 0x20 to 0x5f and 0x61 to 0x7e in their order; the one
\* between them is none a TLA+ string can hold
AsciiLow == " !\"#$%&'()*+,-./0123456789:;<=>?@ABCDEFGHIJKLMNOPQRSTUVWXYZ[\\]^_"
AsciiHigh == "abcdefghijklmnopqrstuvwxyz{|}~"

UpperHexDigits == "0123456789ABCDEF"

RECURSIVE HexText(_, _)
\* the number in hexadecimal, in width digits at least
HexText(n, width) ==
    IF n = 0 /\ width <= 0 THEN ""
    ELSE HexText(n \div 16, width - 1) \o SubSeq(UpperHexDigits, (n % 16) + 1, (n % 16) + 1)

\* chr(n) as a character of the model
Chr(n) ==
    CASE n = 9 -> "\t" [] n = 10 -> "\n" [] n = 12 -> "\f" [] n = 13 -> "\r"
      [] n >= 32 /\ n <= 95 -> SubSeq(AsciiLow, n - 31, n - 31)
      [] n >= 97 /\ n <= 126 -> SubSeq(AsciiHigh, n - 96, n - 96)
      [] OTHER -> "U+" \o HexText(n, 4)

HexVal(c) ==
    CASE IsDigit(c) -> DigitVal(c)
      [] c \in { "a", "A" } -> 10 [] c \in { "b", "B" } -> 11 [] c \in { "c", "C" } -> 12
      [] c \in { "d", "D" } -> 13 [] c \in { "e", "E" } -> 14 [] c \in { "f", "F" } -> 15
      [] OTHER -> 0 - 1

\* _decode_uXXXX: the number of the four hexadecimal digits from the place
\* i on, -1 when they are not there
DecodeHex4(text, i) ==
    IF i + 3 <= Len(text) /\ \A j \in i..(i + 3) : HexVal(text[j]) >= 0
    THEN 4096 * HexVal(text[i]) + 256 * HexVal(text[i + 1])
         + 16 * HexVal(text[i + 2]) + HexVal(text[i + 3])
    ELSE 0 - 1

\* json.decoder.BACKSLASH: what follows the backslash of a short escape
ShortEscapes == { Quote, Backslash, "/", "b", "f", "n", "r", "t" }
Unescaped(esc) ==
    CASE esc = "b" -> "U+0008" [] esc = "f" -> "\f" [] esc = "n" -> "\n"
      [] esc = "r" -> "\r" [] esc = "t" -> "\t" [] OTHER -> esc

RECURSIVE ParseString(_, _, _), UnicodeEscape(_, _, _, _), SurrogatePair(_, _, _, _, _)
\* scanstring, strict: the decoder inside a string, from the place i on and
\* after the characters acc
ParseString(text, i, acc) ==
    IF i > Len(text) THEN Unterminated(JStr(acc), i)
    ELSE IF text[i] = Quote THEN Decoded(JStr(acc), i + 1)
    ELSE IF IsControl(text[i]) THEN DecodeError
    ELSE IF text[i] # Backslash THEN ParseString(text, i + 1, Append(acc, text[i]))
    ELSE IF i + 1 > Len(text) THEN Unterminated(JStr(acc), i + 1)
    ELSE IF text[i + 1] # "u"
         THEN IF text[i + 1] \in ShortEscapes
              THEN ParseString(text, i + 2, Append(acc, Unescaped(text[i + 1])))
              ELSE DecodeError
    ELSE UnicodeEscape(text, i, acc, DecodeHex4(text, i + 2))

\* the escape \uXXXX at the place i with the number uni: a high surrogate
\* that another \u escape follows is looked at with it
UnicodeEscape(text, i, acc, uni) ==
    IF uni < 0 THEN DecodeError
    ELSE IF /\ 55296 <= uni /\ uni <= 56319
            /\ CharAt(text, i + 6) = Backslash /\ CharAt(text, i + 7) = "u"
         THEN SurrogatePair(text, i, acc, uni, DecodeHex4(text, i + 8))
    ELSE ParseString(text, i + 6, Append(acc, Chr(uni)))

\* a high surrogate and the low one that follows it make one character, a
\* surrogate on its own stays
SurrogatePair(text, i, acc, uni, uni2) ==
    IF uni2 < 0 THEN DecodeError
    ELSE IF 56320 <= uni2 /\ uni2 <= 57343
         THEN ParseString(text, i + 12,
                          Append(acc, Chr(65536 + (uni - 55296) * 1024 + (uni2 - 56320))))
    ELSE ParseString(text, i + 6, Append(acc, Chr(uni)))

\* the number matched as m at the place i: an int when the text has neither
\* a fraction nor an exponent, else a float
NumberAt(text, i, m) ==
    IF m.int_end = 0 THEN DecodeError
    ELSE IF m.end = m.int_end THEN Decoded(JInt(IntOf(SubSeq(text, i, m.end - 1))), m.end)
    ELSE Decoded(JFloat(SubSeq(text, i, m.end - 1)), m.end)

\* the decoder at a number
ParseNumber(text, i) == NumberAt(text, i, match_number(text, i))

\* the constants json accepts besides numbers
ParseConstant(text, i) ==
    IF StartsAt(text, i, Chars("NaN")) THEN Decoded(JFloat(Chars("NaN")), i + 3)
    ELSE IF StartsAt(text, i, Chars("Infinity"))
         THEN Decoded(JFloat(Chars("Infinity")), i + 8)
    ELSE IF StartsAt(text, i, Chars("-Infinity"))
         THEN Decoded(JFloat(Chars("-Infinity")), i + 9)
    ELSE DecodeError

\* the key of an object as a name
RECURSIVE NameOf(_)
NameOf(chars) == IF chars = << >> THEN "" ELSE Head(chars) \o NameOf(Tail(chars))

\* a number, or when there is none one of the constants
NumberOrConstant(text, i, r) == IF r.ok THEN r ELSE ParseConstant(text, i)

RECURSIVE ParseValue(_, _), ParseArray(_, _), ParseObject(_, _)
RECURSIVE ParseElements(_, _, _), ElementsAfter(_, _, _), ElementsNext(_, _, _)
RECURSIVE ParseMembers(_, _, _), MembersColon(_, _, _), MembersValue(_, _, _, _)
RECURSIVE MembersAfter(_, _, _, _), MembersNext(_, _, _)
\* scan_once: the decoder at the value that starts at the place i
ParseValue(text, i) ==
    CASE CharAt(text, i) = Quote -> ParseString(text, i + 1, << >>)
      [] CharAt(text, i) = "[" -> ParseArray(text, SkipWhitespace(text, i + 1))
      [] CharAt(text, i) = "{" -> ParseObject(text, SkipWhitespace(text, i + 1))
      [] StartsAt(text, i, Chars("null")) -> Decoded(JNull, i + 4)
      [] StartsAt(text, i, Chars("true")) -> Decoded(JBool(TRUE), i + 4)
      [] StartsAt(text, i, Chars("false")) -> Decoded(JBool(FALSE), i + 5)
      [] OTHER -> NumberOrConstant(text, i, ParseNumber(text, i))

\* JSONArray after "[" and white space: the empty array, or its elements
ParseArray(text, j) ==
    IF CharAt(text, j) = "]" THEN Decoded(JList(<< >>), j + 1)
    ELSE ParseElements(text, j, << >>)

\* JSONObject after "{" and white space: the empty object, or its members
ParseObject(text, j) ==
    IF CharAt(text, j) = "}" THEN Decoded(JObj(<< >>), j + 1)
    ELSE ParseMembers(text, j, << >>)

\* JSONArray: the decoder inside an array, at the element that starts at
\* the place i and after the elements acc
ParseElements(text, i, acc) == ElementsAfter(text, acc, ParseValue(text, i))

\* after the element decoded as r
ElementsAfter(text, acc, r) ==
    IF ~r.ok THEN DecodeError
    ELSE ElementsNext(text, Append(acc, r.val), SkipWhitespace(text, r.pos))

\* after the elements acc and white space: a comma and the next element,
\* or the end of the array
ElementsNext(text, acc, j) ==
    IF j > Len(text) THEN Unterminated(JList(acc), j)
    ELSE IF text[j] = "," THEN ParseElements(text, SkipWhitespace(text, j + 1), acc)
    ELSE IF text[j] = "]" THEN Decoded(JList(acc), j + 1)
    ELSE DecodeError

\* JSONObject: the decoder inside an object, at the key that starts at the
\* place i and after the members acc
ParseMembers(text, i, acc) ==
    IF CharAt(text, i) # Quote THEN DecodeError
    ELSE MembersColon(text, acc, ParseString(text, i + 1, << >>))

\* after the key decoded as k: white space and the colon
MembersColon(text, acc, k) ==
    IF ~k.ok THEN DecodeError
    ELSE MembersValue(text, acc, NameOf(k.val.s), SkipWhitespace(text, k.pos))

\* at the place c, where the colon is to be, and the value after it
MembersValue(text, acc, name, c) ==
    IF CharAt(text, c) # ":" THEN DecodeError
    ELSE MembersAfter(text, acc, name, ParseValue(text, SkipWhitespace(text, c + 1)))

\* after the value decoded as r: of two members with one key the later one
\* stays
MembersAfter(text, acc, name, r) ==
    IF ~r.ok THEN DecodeError
    ELSE MembersNext(text, (name :> r.val) @@ acc, SkipWhitespace(text, r.pos))

\* after the members and white space: a comma and the next member, or the
\* end of the object
MembersNext(text, members, j) ==
    IF j > Len(text) THEN Unterminated(JObj(members), j)
    ELSE IF text[j] = "," THEN ParseMembers(text, SkipWhitespace(text, j + 1), members)
    ELSE IF text[j] = "}" THEN Decoded(JObj(members), j + 1)
    ELSE DecodeError

\* the value decoded as r is the whole text but for white space
WholeText(text, r) ==
    IF r.ok /\ SkipWhitespace(text, r.pos) > Len(text) THEN r ELSE DecodeError

\* json.load(f): the value the whole text is, white space around it allowed;
\* JSONDecodeError for a text that is no value or that goes on after one
json_load(text) == WholeText(text, ParseValue(text, SkipWhitespace(text, 1)))

\* the decoded object as the dictionary from_dict receives
DictOf(obj) == obj.s

\* QAGenerationState.from_dict(data) inside load_state's try block
StateOfDict(d) == IF from_dict_raises(d) THEN None ELSE Some(from_dict(d))

\* what load_state returns for the value json.load decoded as r
StateOfValue(r) == IF ~r.ok \/ r.val.t # "obj" THEN None ELSE StateOfDict(DictOf(r.val))

\* load_state of a file holding the text: None when json.load raises, when
\* the value is no object (data["file_stem"] raises) and when from_dict
\* raises
load_text(text) == StateOfValue(json_load(text))

\* a question with characters the encoder escapes and one outside ASCII,
\* which ensure_ascii=False writes as it is
EscapedQuestion == << "Q", Quote, Backslash, "\n", "U+0001", "U+00E9", "/" >>

\* the states a save is interrupted in: after one and after two units of a
\* document of twelve pages, and after one unit with such a question
InterruptedStates ==
    LET st == [n \in 1..2 |->
                 [SaveState(MarkdownPathOf(<< "d" >>, << "a", ".", "p", "d", "f" >>), 2, n)
                     EXCEPT !.total_pages = 12]]
    IN  { st[1], st[2],
          [st[1] EXCEPT !.generated_qa_pairs[1].question = EscapedQuestion,
                        !.existing_questions = << EscapedQuestion >>] }

\* the progress directory before the save: empty, or the complete checkpoint
\* an earlier save left
InitInterrupt ==
    /\ file_name = << "a", ".", "p", "d", "f" >>
    /\ md_exists = TRUE
    /\ pages = << [hdr |-> << "7" >>, body |-> TRUE] >>
    /\ capability = "steady"
    /\ IdleRun
    /\ store \in { NoFiles } \cup { save_state_done(NoFiles, st, 0) : st \in InterruptedStates }
    /\ call = None
    /\ ret = None

\* save_state(st) that a crash ends after k characters of the text were
\* written (all of them: the save completed), then load_state of the key
InterruptSave ==
    /\ call = None
    /\ \E st \in InterruptedStates :
         LET now == run + 1
             text == json_dump(to_dict([st EXCEPT !.updated_at = now]))
         IN  \E k \in 0..Len(text) :
               /\ call' = Some([fn |-> "save_state", file_stem |-> st.file_stem,
                                state |-> Some([st EXCEPT !.updated_at = now]),
                                before |-> store, text |-> SubSeq(text, 1, k),
                                whole |-> (k = Len(text))])
               /\ store' = IF k = Len(text) THEN save_state_done(store, st, now)
                           ELSE save_state_open(store, st, now)
               /\ ret' = Some(load_text(SubSeq(text, 1, k)))
    /\ UNCHANGED storeFrame
    /\ UNCHANGED run

NextInterrupt == InterruptSave

SpecInterrupt == InitInterrupt /\ [][NextInterrupt]_vars

\* C31: after a save_state that a crash ended before the whole text was
\* written, load_state returns None or a state an earlier save wrote
\* completely, never another state; the text of a save that completed loads
\* as the state passed to it. The file's text decides alone: what load_state
\* gives for the text is what it gives for the file.
C31_NoValidButWrongCheckpoint ==
    Applied("save_state") =>
        LET got == ret[1]
        IN  /\ ~LastOp.whole =>
                  \/ got = None
                  \/ got = load_state(LastOp.before, LastOp.file_stem)
            /\ LastOp.whole => got = LastOp.state
            /\ got = load_state(store, LastOp.file_stem)

\* the text ends with the characters of lit
EndsWith(text, lit) ==
    Len(lit) <= Len(text) /\ SubSeq(text, Len(text) - Len(lit) + 1, Len(text)) = lit

\* the crash came inside the number of total_pages, the text so far ends in
\* a shorter number, the file had held a complete checkpoint, and load_state
\* gives None
C31_Witness ==
    /\ Applied("save_state")
    /\ ~LastOp.whole
    /\ EndsWith(LastOp.text, Chars("\"total_pages\": 1"))
    /\ load_state(LastOp.before, LastOp.file_stem) # None
    /\ ret = Some(None)
\* ------------------------------------- generate_from_markdown on its own
\* the behaviours of the client the engine is called with on its own: the
\* deterministic ones, so that two calls meet the same behaviour
EngineCapabilities == { "steady", "sparse", "picky", "garbled" }

\* the loops of generate_from_markdown with nothing saved, from the head of
\* page idx (d = 0) or from level d of it, for the cursor (sp, sd): the units
\* invoked, the list each one hands to the client, the accumulator and the
\* questions at the end, and the two lists as they were after every unit
\* that returned
RECURSIVE LoopsFrom(_, _, _, _, _)
LoopsFrom(idx, d, sp, sd, tr) ==
    IF idx > Len(pages) THEN tr
    ELSE IF d = 0
    THEN LET first == IF idx = sp THEN sd ELSE 1
         IN  IF \/ ~pages[idx].body
                \/ idx < sp
                \/ ~IntParses(pages[idx].hdr)
                \/ first > max_difficulty
             THEN LoopsFrom(idx + 1, 0, sp, sd, tr)
             ELSE LoopsFrom(idx, first, sp, sd, tr)
    ELSE LET out == CHOOSE o \in OutcomesOf(capability, << idx, d >>) : TRUE
             r == generate_from_page(PageOf(idx), d, out)
             called == [tr EXCEPT !.invoked = Append(@, << idx, d >>),
                                  !.avoids = Append(@, tr.questions)]
             pairs == tr.pairs \o r.pairs
             questions == tr.questions \o [i \in 1..Len(r.pairs) |-> r.pairs[i].question]
             extended == [called EXCEPT !.pairs = pairs, !.questions = questions,
                                        !.after = Append(@, [unit |-> << idx, d >>,
                                                             pairs |-> pairs,
                                                             questions |-> questions])]
         IN  IF ~r.ok THEN LoopsFrom(idx + 1, 0, sp, sd, called)
             ELSE IF d < max_difficulty THEN LoopsFrom(idx, d + 1, sp, sd, extended)
             ELSE LoopsFrom(idx + 1, 0, sp, sd, extended)

\* the loops of a call without resume state
FreshLoops ==
    LoopsFrom(1, 0, 1, 1, [invoked |-> << >>, avoids |-> << >>, pairs |-> << >>,
                           questions |-> << >>, after |-> << >>])

\* the checkpoints such a call leaves after its units when it saves: the
\* resume states of a later call
ResumeStates ==
    { [file_stem |-> EngineKey(markdown_path), markdown_path |-> StrOfPath(markdown_path),
       max_difficulty |-> max_difficulty,
       current_page_idx |-> NextCursor(e.unit[1], e.unit[2], max_difficulty)[1],
       current_difficulty |-> NextCursor(e.unit[1], e.unit[2], max_difficulty)[2],
       total_pages |-> Len(pages), generated_qa_pairs |-> e.pairs,
       existing_questions |-> e.questions, created_at |-> 0, updated_at |-> 0] :
      e \in { FreshLoops.after[i] : i \in { j \in 1..Len(FreshLoops.after) :
                  \A q \in 1..Len(FreshLoops.after[j].questions) :
                      Encodable(FreshLoops.after[j].questions[q]) } } }

\* generate_from_markdown(markdown_path, max_difficulty, callback,
\* progress_manager or None, resume_state or None) is called; the progress
\* directory is empty or holds the resume state's file
InitEngine ==
    /\ file_name = << "a", ".", "b", ".", "p", "d", "f" >>
    /\ md_exists = TRUE
    /\ pages \in Documents
    /\ capability \in EngineCapabilities
    /\ files_to_process = << >>
    /\ file_idx = 0
    /\ attempted = << >>
    /\ outcomes = << >>
    /\ batch_total = 0
    /\ written = << >>
    /\ avoid = None
    /\ progress = << >>
    /\ run = 1
    /\ data_dir = << "d" >>
    /\ max_difficulty \in 1..MaxDiff
    /\ force_restart = FALSE
    /\ pc = "engine"
    /\ resume_state \in { None } \cup { Some(st) : st \in ResumeStates }
    /\ all_qa_pairs = << >>
    /\ existing_questions = << >>
    /\ total_qa_pairs = 0
    /\ page_idx = 0
    /\ difficulty = 0
    /\ qa_pairs = << >>
    /\ output = None
    /\ wrote = FALSE
    /\ result = None
    /\ invokedBefore = << >>
    /\ invoked = << >>
    /\ savedInvoked = << >>
    /\ savedUnit = None
    /\ resumeUnit = None
    /\ store = IF resume_state = None THEN NoFiles
               ELSE save_state_done(NoFiles, resume_state[1], 0)
    /\ lastWrite = store
    /\ runSaved = None
    /\ loaded = None
    /\ accepted = FALSE
    /\ lastCompleted = None
    /\ raised = None
    /\ failedAt = "-"
    /\ savesSinceUnit = 0
    /\ \E manager \in BOOLEAN :
         call = Some([fn |-> "generate_from_markdown", progress_manager |-> manager,
                      resume_state |-> resume_state, before |-> store])
    /\ ret = None

NextEngine ==
    \/ EngineInit
    \/ EngineReadFail
    \/ PageStep
    \/ InvokeBegin
    \/ Invoke
    \/ SkipSave
    \/ SaveBegin
    \/ SaveEnd
    \/ SaveRaise

SpecEngine == InitEngine /\ [][NextEngine]_vars

\* the loops of the call, from its resume state
Loops ==
    LoopsFrom(1, 0, start_page_idx, start_difficulty,
              [invoked |-> << >>, avoids |-> << >>,
               pairs |-> IF resume_state # None THEN resume_state[1].generated_qa_pairs
                         ELSE << >>,
               questions |-> IF resume_state # None THEN resume_state[1].existing_questions
                             ELSE << >>,
               after |-> << >>])

\* the call computes what its loops compute with nothing saved: the units
\* invoked so far, the list handed to the client last, and what is returned
ComputesAsLoops ==
    /\ IsPrefix(invoked, Loops.invoked)
    /\ avoid # None => avoid[1] = Loops.avoids[Len(invoked)]
    /\ pc = "returned" => (invoked = Loops.invoked /\ all_qa_pairs = Loops.pairs)

\* the call leaves the progress directory and its resume state as they were
LeavesAlone ==
    /\ ~HasManager => store = call[1].before
    /\ Generating => resume_state = call[1].resume_state

\* C35: with and without a progress manager the call invokes the same units
\* in the same order with the same avoid-lists, the ones its loops give with
\* nothing saved, and a call that returns returns the sequence they give;
\* without a manager the progress directory stays as it was, and the resume
\* state stays as it was passed in. A save_state failure that leaves the
\* call, as C26 requires of it, ends the units there and returns nothing.
C35_ManagerChangesNothing ==
    /\ Generating => ComputesAsLoops
    /\ LeavesAlone
\* ------------------------------------------------ a document run until done
\* the behaviours of the client in the restarted runs: every call returns
\* or fails
RestartCapabilities == { "steady", "flaky" }

InitRestart ==
    /\ file_name = << "a", ".", "b", ".", "p", "d", "f" >>
    /\ md_exists = FALSE
    /\ pages = << >>
    /\ capability \in RestartCapabilities
    /\ Idle
    /\ call = None
    /\ ret = None

\* the run completed a unit, its save included, or is the first one
Progressed == run = 1 \/ runSaved # None

\* process_single_file is called for the document, the first time with some
\* --max-difficulty, then again with the same options as long as the document
\* is not done; the clock stops at MaxRuns
RestartRun ==
    /\ pc \in { "idle", "failed", "crashed" }
    /\ run' = IF run < MaxRuns THEN run + 1 ELSE run
    /\ data_dir' = data_dir
    /\ max_difficulty' \in IF pc = "idle" THEN 1..MaxDiff ELSE { max_difficulty }
    /\ force_restart' = FALSE
    /\ pc' = "convert"
    /\ RunCleared
    /\ runSaved' = None
    /\ wrote' = FALSE
    /\ UNCHANGED << inputs, output, store, savedInvoked, savedUnit >>

\* the user asked whether to resume says yes
ResolveAndResume == ResolveAnswer /\ accepted'

\* a run that finds no markdown file converts the document, the runs after
\* it find the file and the user keeps it
ConvertOnce == ConvertBegin /\ pc = "convert"
ConvertKept == ConvertAsk

\* a step of the run that neither fails nor is interrupted
RunStep ==
    \/ ConvertOnce
    \/ ConvertKept
    \/ ConvertUse
    \/ ConvertOpen
    \/ Convert
    \/ ResolveCheckpoint
    \/ ResolveAndResume
    \/ EngineInit
    \/ PageStep
    \/ InvokeBegin
    \/ Invoke /\ pc' # "failed"
    \/ SaveBegin
    \/ SaveEnd
    \/ Dedup
    \/ WriteOutput
    \/ WriteLine
    \/ DeleteCheckpoint

\* a failure or an interruption, once the run has progressed
RunEnds ==
    /\ Progressed
    /\ \/ Invoke /\ pc' = "failed"
       \/ SaveRaise
       \/ FinalizeFail
       \/ Crash

NextRestart ==
    \/ RestartRun
    \/ RunStep
    \/ RunEnds

\* the run goes on unless it fails or is interrupted, and a run that ended
\* short of done is followed by another
SpecRestart ==
    InitRestart /\ [][NextRestart]_vars /\ WF_vars(RunStep) /\ WF_vars(RestartRun)

\* the output is written and the checkpoint deleted
Finalized == pc = "done" /\ output # None /\ ProgressFile \notin DOMAIN store

\* a run that follows completed saves starts from a state with a pair of
\* every unit saved and the cursor behind the last of them, so that none of
\* their units is invoked again
SavedUnitsKept ==
    (pc = "engine" /\ savedUnit # None) =>
        /\ resume_state # None
        /\ Len(resume_state[1].generated_qa_pairs) = Len(savedInvoked)
        /\ Before(savedUnit[1], << resume_state[1].current_page_idx,
                                   resume_state[1].current_difficulty >>)

\* C36: when every call returns or fails and every restarted run resumes and
\* completes a further unit, its save included, before it fails or is
\* interrupted, the document is finalized after finitely many runs, and no
\* run starts without the units whose save completed.
C36_RestartsReachFinalized == <>Finalized /\ []SavedUnitsKept
\* -------------------------------------------------- dresokb2.extract_questions
\* ask_skip_or_overwrite: the step is skipped unless the answer is "n"
Skips(response) == response # "n"

\* the items a refinement builds: QAItem(..., difficulty=2)
Level2Items == { [i EXCEPT !.difficulty = 2] : i \in QAItems }

\* the lists an extraction or a refinement may return
ItemLists(items) == UNION { [1..n -> items] : n \in 0..MaxQAItems }

\* a .jsonl file of the data directory: the items of its lines, and whether
\* every line that is not blank parses as an item
ExistingFiles ==
    { [items |-> << >>, valid |-> TRUE],
      [items |-> << CHOOSE i \in QAItems : i.question = << "Q", "1" >> >>, valid |-> TRUE],
      [items |-> << >>, valid |-> FALSE] }

\* the calls: the argument, the files f"{file_path.stem}_d{n}.jsonl" of the
\* data directory, where the call is, its local variables, and the calls it
\* has made in order
ExtractCalls ==
    { [fn |-> "extract_questions", max_difficulty |-> md, files |-> fs, at |-> "phase1",
       level1_items |-> << >>, level2_items |-> << >>, all_items |-> << >>,
       trace |-> << >>] :
        md \in 1..MaxDiff,
        fs \in [1..MaxDiff -> { None } \cup { Some(f) : f \in ExistingFiles }] }

InitExtract ==
    /\ file_name = << "a", ".", "m", "d" >>
    /\ md_exists = TRUE
    /\ pages = << [hdr |-> << "7" >>, body |-> TRUE] >>
    /\ capability = "steady"
    /\ Idle
    /\ call \in { Some(c) : c \in ExtractCalls }
    /\ ret = None

\* the call is at the given place
At(place) == call # None /\ call[1].fn = "extract_questions" /\ call[1].at = place

\* an exception leaves extract_questions
Propagates(events) ==
    /\ call' = Some([call[1] EXCEPT !.at = "raised", !.trace = @ \o events])
    /\ ret' = Some([kind |-> "raise"])

\* the call goes on at the given place, the events added to the calls made
GoesOn(place, events) ==
    /\ call' = Some([call[1] EXCEPT !.at = place, !.trace = @ \o events])
    /\ ret' = ret

\* level1_path.exists() and ask_skip_or_overwrite(level1_path, "Extraction"):
\* without the file nobody is asked; input() returns the answer, or raises
\* EOFError or KeyboardInterrupt, which leaves extract_questions
CheckLevel1 ==
    /\ At("phase1")
    /\ IF call[1].files[1] = None
       THEN GoesOn("extract1", << >>)
       ELSE \/ \E response \in UserResponses :
                 GoesOn(IF Skips(response) THEN "load1" ELSE "extract1",
                        << "ask_skip_or_overwrite" >>)
            \/ Propagates(<< "ask_skip_or_overwrite" >>)
    /\ UNCHANGED << run, store, storeFrame >>

\* the user skips: load_qa_items_from_jsonl returns the items of the file,
\* or raises OSError when the file cannot be read and ValueError on a line
\* that is no item; all_items = level1_items.copy()
LoadLevel1 ==
    /\ At("load1")
    /\ LET events == << "load_qa_items_from_jsonl" >>
           file == call[1].files[1][1]
       IN  \/ /\ file.valid
              /\ call' = Some([call[1] EXCEPT !.at = "phase2",
                                               !.level1_items = file.items,
                                               !.all_items = file.items,
                                               !.trace = @ \o events])
              /\ ret' = ret
           \/ Propagates(events)
    /\ UNCHANGED << run, store, storeFrame >>

\* level1_path does not exist or the user overwrites:
\* extract_level1_questions returns a list or raises
ExtractLevel1 ==
    /\ At("extract1")
    /\ LET events == << "extract_level1_questions" >>
       IN  \/ \E items \in ItemLists(QAItems) :
                 /\ call' = Some([call[1] EXCEPT !.at = "quality1",
                                                  !.level1_items = items,
                                                  !.trace = @ \o events])
                 /\ ret' = ret
           \/ Propagates(events)
    /\ UNCHANGED << run, store, storeFrame >>

\* level1_items = await quality_control_filter(level1_items, client, 1); an
\* exception of agent.run is caught inside, one of the agent's construction
\* or a cancellation is not
QualityLevel1 ==
    /\ At("quality1")
    /\ \/ /\ \E os \in [1..Len(call[1].level1_items) -> AgentOutcomes] :
                call' = Some([call[1] EXCEPT
                                 !.at = "save1",
                                 !.level1_items = quality_control_filter(@, os, 10).filtered,
                                 !.trace = @ \o << "quality_control_filter 1" >>])
          /\ ret' = ret
       \/ /\ call[1].level1_items # << >>
          /\ Propagates(<< "quality_control_filter 1" >>)
    /\ UNCHANGED << run, store, storeFrame >>

\* the file a save_qa_items_to_jsonl(items, path) that raised OSError
\* leaves: the one there was when open() failed, else one with the lines
\* written before the failure, the last of them cut short or not
FilesAfterFailedSave(file, items) ==
    { file }
    \cup { Some([items |-> SubSeq(items, 1, k), valid |-> TRUE]) : k \in 0..Len(items) }
    \cup { Some([items |-> SubSeq(items, 1, k - 1), valid |-> FALSE]) : k \in 1..Len(items) }

\* save_qa_items_to_jsonl(level1_items, level1_path);
\* all_items = level1_items.copy()
SaveLevel1 ==
    /\ At("save1")
    /\ \/ /\ call' = Some([call[1] EXCEPT
                              !.at = "phase2",
                              !.files[1] = Some([items |-> call[1].level1_items,
                                                 valid |-> TRUE]),
                              !.all_items = call[1].level1_items,
                              !.trace = @ \o << "save_qa_items_to_jsonl 1" >>])
          /\ ret' = ret
       \/ \E left \in FilesAfterFailedSave(call[1].files[1], call[1].level1_items) :
              /\ call' = Some([call[1] EXCEPT
                                  !.at = "raised",
                                  !.files[1] = left,
                                  !.trace = @ \o << "save_qa_items_to_jsonl 1" >>])
              /\ ret' = Some([kind |-> "raise"])
    /\ UNCHANGED << run, store, storeFrame >>

\* the else branch of "if max_difficulty >= 2": the totals are printed
ReturnLevel1 ==
    /\ At("phase2")
    /\ call[1].max_difficulty < 2
    /\ call' = Some([call[1] EXCEPT !.at = "returned"])
    /\ ret' = Some([kind |-> "return"])
    /\ UNCHANGED << run, store, storeFrame >>

\* the check of the output file whatever max_difficulty is (a faulty variant)
CheckLevel2_AnyDifficulty ==
    /\ At("phase2")
    /\ IF call[1].files[call[1].max_difficulty] = None
       THEN GoesOn("refine2", << >>)
       ELSE \/ \E response \in UserResponses :
                 IF Skips(response)
                 THEN /\ call' = Some([call[1] EXCEPT
                                          !.at = "returned",
                                          !.trace = @ \o << "ask_skip_or_overwrite" >>])
                      /\ ret' = Some([kind |-> "return"])
                 ELSE GoesOn("refine2", << "ask_skip_or_overwrite" >>)
            \/ Propagates(<< "ask_skip_or_overwrite" >>)
    /\ UNCHANGED << run, store, storeFrame >>

\* "if max_difficulty >= 2": output_path.exists() and
\* ask_skip_or_overwrite(output_path, "Refinement"); when the user skips the
\* function returns, and input() may raise
CheckLevel2 ==
    /\ At("phase2")
    /\ call[1].max_difficulty >= 2
    /\ IF call[1].files[call[1].max_difficulty] = None
       THEN GoesOn("refine2", << >>)
       ELSE \/ \E response \in UserResponses :
                 IF Skips(response)
                 THEN /\ call' = Some([call[1] EXCEPT
                                          !.at = "returned",
                                          !.trace = @ \o << "ask_skip_or_overwrite" >>])
                      /\ ret' = Some([kind |-> "return"])
                 ELSE GoesOn("refine2", << "ask_skip_or_overwrite" >>)
            \/ Propagates(<< "ask_skip_or_overwrite" >>)
    /\ UNCHANGED << run, store, storeFrame >>

\* output_path does not exist or the user overwrites: refine_to_level2
\* returns a list, empty when there is no level-1 item, or raises, making
\* its agent (whatever the list is) or in a batch
RefineLevel2 ==
    /\ At("refine2")
    /\ LET events == << "refine_to_level2" >>
       IN  \/ \E items \in ItemLists(Level2Items) :
                 /\ call[1].level1_items = << >> => items = << >>
                 /\ call' = Some([call[1] EXCEPT !.at = "quality2",
                                                  !.level2_items = items,
                                                  !.trace = @ \o events])
                 /\ ret' = ret
           \/ Propagates(events)
    /\ UNCHANGED << run, store, storeFrame >>

\* level2_items = await quality_control_filter(level2_items, client, 2)
QualityLevel2 ==
    /\ At("quality2")
    /\ \/ /\ \E os \in [1..Len(call[1].level2_items) -> AgentOutcomes] :
                call' = Some([call[1] EXCEPT
                                 !.at = "save2",
                                 !.level2_items = quality_control_filter(@, os, 10).filtered,
                                 !.trace = @ \o << "quality_control_filter 2" >>])
          /\ ret' = ret
       \/ /\ call[1].level2_items # << >>
          /\ Propagates(<< "quality_control_filter 2" >>)
    /\ UNCHANGED << run, store, storeFrame >>

\* save_qa_items_to_jsonl(level2_items, output_path);
\* all_items.extend(level2_items); the function returns
SaveLevel2 ==
    /\ At("save2")
    /\ \/ /\ call' = Some([call[1] EXCEPT
                              !.at = "returned",
                              !.files[call[1].max_difficulty] =
                                  Some([items |-> call[1].level2_items, valid |-> TRUE]),
                              !.all_items = @ \o call[1].level2_items,
                              !.trace = @ \o << "save_qa_items_to_jsonl 2" >>])
          /\ ret' = Some([kind |-> "return"])
       \/ \E left \in FilesAfterFailedSave(call[1].files[call[1].max_difficulty],
                                           call[1].level2_items) :
              /\ call' = Some([call[1] EXCEPT
                                  !.at = "raised",
                                  !.files[call[1].max_difficulty] = left,
                                  !.trace = @ \o << "save_qa_items_to_jsonl 2" >>])
              /\ ret' = Some([kind |-> "raise"])
    /\ UNCHANGED << run, store, storeFrame >>

NextExtract ==
    \/ CheckLevel1
    \/ LoadLevel1
    \/ ExtractLevel1
    \/ QualityLevel1
    \/ SaveLevel1
    \/ ReturnLevel1
    \/ CheckLevel2
    \/ RefineLevel2
    \/ QualityLevel2
    \/ SaveLevel2

SpecExtract == InitExtract /\ [][NextExtract]_vars

\* every refinement call was made with max_difficulty >= 2 and after the
\* level-1 file was written or loaded
RefinesAfterLevel1 ==
    \A k \in 1..Len(call[1].trace) :
        call[1].trace[k] = "refine_to_level2" =>
            /\ call[1].max_difficulty >= 2
            /\ \E j \in 1..(k - 1) :
                   call[1].trace[j] \in { "save_qa_items_to_jsonl 1", "load_qa_items_from_jsonl" }

\* the extraction and its quality control ran once each, the level-1 file
\* was written and there was no refinement
Level1RanOnce ==
    /\ Count(call[1].trace, "extract_level1_questions") = 1
    /\ Count(call[1].trace, "quality_control_filter 1") = 1
    /\ Count(call[1].trace, "save_qa_items_to_jsonl 1") = 1
    /\ call[1].files[1] = Some([items |-> call[1].level1_items, valid |-> TRUE])
    /\ Count(call[1].trace, "refine_to_level2") = 0

\* the claim as it stands: refinement only with max_difficulty >= 2 and after
\* the level-1 file was written or loaded, and every call with
\* max_difficulty = 1 that returned ran the extraction and its quality
\* control once each and wrote the level-1 file.
C39_Level1AlwaysRuns ==
    (call # None /\ call[1].fn = "extract_questions") =>
        /\ RefinesAfterLevel1
        /\ (call[1].max_difficulty = 1 /\ call[1].at = "returned") => Level1RanOnce

\* C39: refine_to_level2 is called only when max_difficulty >= 2 and only
\* after the level-1 items were written to or loaded from the level-1 file;
\* a call with max_difficulty = 1 that returned without loading an existing
\* level-1 file ran the extraction and its quality control once each, wrote
\* the level-1 file and made no refinement call; one that loaded the file
\* ran neither, wrote nothing and made no refinement call either.
C39_Level1RunsUnlessLoaded ==
    (call # None /\ call[1].fn = "extract_questions") =>
        /\ RefinesAfterLevel1
        /\ (call[1].max_difficulty = 1 /\ call[1].at = "returned") =>
               IF Count(call[1].trace, "load_qa_items_from_jsonl") = 0
               THEN Level1RanOnce
               ELSE call[1].trace = << "ask_skip_or_overwrite", "load_qa_items_from_jsonl" >>

\* a call with max_difficulty = 1 replaced an existing level-1 file by the
\* one item its quality control kept of two
C39_Witness ==
    /\ At("returned")
    /\ call[1].max_difficulty = 1
    /\ call[1].trace = << "ask_skip_or_overwrite", "extract_level1_questions",
                          "quality_control_filter 1", "save_qa_items_to_jsonl 1" >>
    /\ Len(call[1].level1_items) = 1
    /\ call[1].files[1] = Some([items |-> call[1].level1_items, valid |-> TRUE])
    /\ ret = Some([kind |-> "return"])
====
